---- MODULE Spec2Model ----
(***************************************************************************)
(* A model of flow-lens: the flow parser, the flow comparator and the     *)
(* per-file pipeline stage that runs them (Parser.process).                *)
(*                                                                         *)
(* JavaScript values are encoded as records [t, s, kv]:                    *)
(*   t  - the kind of value ("undefined", "string", "object", "array"),    *)
(*   s  - the text of a string,                                            *)
(*   kv - the own enumerable properties of an object or array, a function  *)
(*        from property keys (strings; an array's keys are "0", "1", ...)   *)
(*        to values, exactly what Object.keys / obj[key] see.              *)
(***************************************************************************)
EXTENDS Integers, Sequences, FiniteSets, TLC

(***************************************************************************)
(* Bounds of the model.                                                    *)
(***************************************************************************)
\* How many distinct node names the documents draw from.
NumNames == 2

(***************************************************************************)
(* JavaScript values.                                                      *)
(***************************************************************************)
Empty == [k \in {} |-> 0]

Undefined == [t |-> "undefined", s |-> "", kv |-> Empty]

Str(text) == [t |-> "string", s |-> text, kv |-> Empty]

Obj(props) == [t |-> "object", s |-> "", kv |-> props]

\* An array holding the elements of a TLA+ sequence, keyed "0", "1", ...
Arr(seq) ==
  [t |-> "array", s |-> "",
   kv |-> [k \in {ToString(i - 1) : i \in 1..Len(seq)} |->
             seq[CHOOSE i \in 1..Len(seq) : ToString(i - 1) = k]]]

\* typeof v
TypeOf(v) == IF v.t \in {"object", "array", "null"} THEN "object" ELSE v.t

\* Object.keys(v)
Keys(v) == DOMAIN v.kv

\* v[key]: a property that is not there reads as undefined
Get(v, key) == IF key \in DOMAIN v.kv THEN v.kv[key] ELSE Undefined

\* v with v[key] = val assigned
Put(v, key, val) ==
  [v EXCEPT !.kv = [k \in DOMAIN v.kv \cup {key} |->
                      IF k = key THEN val ELSE v.kv[k]]]

\* Array.isArray(v), v.length and v[i] of an array
IsArray(v) == v.t = "array"
Length(v) == Cardinality(DOMAIN v.kv)
At(v, i) == v.kv[ToString(i)]

\* the truthiness of a value: undefined and "" are falsy, objects are truthy
Truthy(v) ==
  CASE v.t = "undefined" -> FALSE
    [] v.t = "null" -> FALSE
    [] v.t = "string" -> v.s # ""
    [] OTHER -> TRUE

(***************************************************************************)
(* Map<string, FlowNode>: keys in insertion order, and the value of each   *)
(* key.  A value is a reference to a node object of the flow (the map and  *)
(* the flow's collections share the node objects).                        *)
(***************************************************************************)
NewMap == [present |-> TRUE, keys |-> <<>>, val |-> Empty]

\* the value of a ParsedFlow whose nameToNode field is not set
NoMap == [present |-> FALSE, keys |-> <<>>, val |-> Empty]

MapHas(m, key) == key \in DOMAIN m.val

MapSet(m, key, ref) ==
  [m EXCEPT !.keys = IF key \in DOMAIN m.val THEN @ ELSE Append(@, key),
            !.val = [k \in DOMAIN m.val \cup {key} |->
                       IF k = key THEN ref ELSE m.val[k]]]

\* the reference to the Start node, and to the idx-th node of a collection
StartRef == [kind |-> "start", idx |-> 0]
NodeRef(kind, idx) == [kind |-> kind, idx |-> idx]

\* the node object a reference points to
NodeOf(flow, ref) ==
  IF ref.kind = "start" THEN flow.start ELSE At(flow.coll[ref.kind], ref.idx)

(***************************************************************************)
(* flowTypes.DiffStatus                                                    *)
(***************************************************************************)
ADDED == "ADDED"
DELETED == "DELETED"
MODIFIED == "MODIFIED"

\* node.diffStatus = status, on the node object the reference points to
SetDiffStatus(flow, ref, status) ==
  IF ref.kind = "start"
  THEN [flow EXCEPT !.start = Put(@, "diffStatus", Str(status))]
  ELSE [flow EXCEPT !.coll[ref.kind] =
          Put(@, ToString(ref.idx),
              Put(At(@, ref.idx), "diffStatus", Str(status)))]

(***************************************************************************)
(* flow_comparator.ts                                                      *)
(***************************************************************************)
\* a === b.  Two objects are === only when they are the same object, which
\* `same` tells; primitives are === when they have the same type and value.
StrictEquals(a, b, same) ==
  IF a.t \in {"object", "array"} \/ b.t \in {"object", "array"}
  THEN same /\ a = b
  ELSE a.t = b.t /\ a.s = b.s

\* areEqual with only the identity test, without the comparison of fields
areEqual_IdentityOnly(node1, node2, same) == StrictEquals(node1, node2, same)

\* areEqual without the comparison of the numbers of keys
RECURSIVE areEqual_NoKeyCount(_, _, _)
areEqual_NoKeyCount(node1, node2, same) ==
  IF StrictEquals(node1, node2, same) THEN TRUE
  ELSE IF \/ TypeOf(node1) # "object"
          \/ TypeOf(node2) # "object"
          \/ node1.t = "null"
          \/ node2.t = "null"
  THEN FALSE
  ELSE \A key \in Keys(node1) :
         LET val1 == Get(node1, key)
             val2 == Get(node2, key)
         IN  IF /\ TypeOf(val1) = "object"
                /\ TypeOf(val2) = "object"
                /\ val1.t # "null"
                /\ val2.t # "null"
             THEN areEqual_NoKeyCount(val1, val2, FALSE)
             ELSE StrictEquals(val1, val2, FALSE)

\* areEqual(node1, node2); `same` tells whether both are one object.
RECURSIVE areEqual(_, _, _)
areEqual(node1, node2, same) ==
  IF StrictEquals(node1, node2, same) THEN TRUE
  ELSE IF \/ TypeOf(node1) # "object"
          \/ TypeOf(node2) # "object"
          \/ node1.t = "null"
          \/ node2.t = "null"
  THEN FALSE
  ELSE IF Cardinality(Keys(node1)) # Cardinality(Keys(node2)) THEN FALSE
  ELSE \A key \in Keys(node1) :
         LET val1 == Get(node1, key)
             val2 == Get(node2, key)
         IN  IF /\ TypeOf(val1) = "object"
                /\ TypeOf(val2) = "object"
                /\ val1.t # "null"
                /\ val2.t # "null"
             THEN areEqual(val1, val2, FALSE)
             ELSE StrictEquals(val1, val2, FALSE)

\* node.diffStatus = status on a node of flows.old or flows.new (which);
\* flows.writes lists the assignments of the call in the order they are made
Write(flows, which, ref, status) ==
  [flows EXCEPT
     ![which] = SetDiffStatus(@, ref, status),
     !.writes = Append(@, [flow |-> which, ref |-> ref, status |-> status])]

\* the nodes of a flow without the default: flow.nameToNode as it is
NodesOf_NoDefault(flow) == flow.nameToNode

\* the nodes of a flow: its nameToNode, or a new empty Map when it has none
NodesOf(flow) == IF flow.nameToNode.present THEN flow.nameToNode ELSE NewMap

\* whether compareFlows(oldFlow, newFlow) throws: oldNodes.keys() and
\* newNodes.get() are calls on the Map, a TypeError on undefined
compareFlowsThrows(oldFlow, newFlow) ==
  ~NodesOf(oldFlow).present \/ ~NodesOf(newFlow).present

\* markDeleted that also takes the node out of the old flow's nameToNode:
\* oldNodes.delete(oldNodeId)
markDeleted_Removes(flows, oldNodes, newNodes, oldNodeId) ==
  IF ~MapHas(newNodes, oldNodeId)
  THEN [Write(flows, "old", oldNodes.val[oldNodeId], DELETED) EXCEPT
          !.old = [@ EXCEPT
                     !.nameToNode =
                        [present |-> TRUE,
                         keys |-> SelectSeq(oldNodes.keys,
                                            LAMBDA key : key # oldNodeId),
                         val |-> [key \in DOMAIN oldNodes.val \ {oldNodeId} |->
                                    oldNodes.val[key]]]]]
  ELSE flows

\* markDeleted with the test inverted: if (newNode)
markDeleted_Inverted(flows, oldNodes, newNodes, oldNodeId) ==
  IF MapHas(newNodes, oldNodeId)
  THEN Write(flows, "old", oldNodes.val[oldNodeId], DELETED)
  ELSE flows

\* if (!newNode) oldNode.diffStatus = DELETED
markDeleted(flows, oldNodes, newNodes, oldNodeId) ==
  IF ~MapHas(newNodes, oldNodeId)
  THEN Write(flows, "old", oldNodes.val[oldNodeId], DELETED)
  ELSE flows

\* markModified that marks the old node only
markModified_OldOnly(flows, oldNodes, newNodes, oldNodeId) ==
  IF /\ MapHas(newNodes, oldNodeId)
     /\ ~areEqual(NodeOf(flows.old, oldNodes.val[oldNodeId]),
                  NodeOf(flows.new, newNodes.val[oldNodeId]), FALSE)
  THEN Write(flows, "old", oldNodes.val[oldNodeId], MODIFIED)
  ELSE flows

\* markModified that does not compare the nodes: if (newNode)
markModified_NoCompare(flows, oldNodes, newNodes, oldNodeId) ==
  IF MapHas(newNodes, oldNodeId)
  THEN Write(Write(flows, "old", oldNodes.val[oldNodeId], MODIFIED),
             "new", newNodes.val[oldNodeId], MODIFIED)
  ELSE flows

\* if (newNode && !areEqual(oldNode, newNode)) both diffStatus = MODIFIED
markModified(flows, oldNodes, newNodes, oldNodeId) ==
  IF /\ MapHas(newNodes, oldNodeId)
     /\ ~areEqual(NodeOf(flows.old, oldNodes.val[oldNodeId]),
                  NodeOf(flows.new, newNodes.val[oldNodeId]), FALSE)
  THEN Write(Write(flows, "old", oldNodes.val[oldNodeId], MODIFIED),
             "new", newNodes.val[oldNodeId], MODIFIED)
  ELSE flows

\* markAdded without the test: every node of the new flow is marked ADDED
markAdded_Always(flows, oldNodes, newNodes, newNodeId) ==
  Write(flows, "new", newNodes.val[newNodeId], ADDED)

\* markAdded that looks the name up in the wrong map: !newNodes.has(newNodeId)
markAdded_WrongMap(flows, oldNodes, newNodes, newNodeId) ==
  IF ~MapHas(newNodes, newNodeId)
  THEN Write(flows, "new", newNodes.val[newNodeId], ADDED)
  ELSE flows

\* if (!oldNodes.has(newNodeId)) newNode.diffStatus = ADDED
markAdded(flows, oldNodes, newNodes, newNodeId) ==
  IF ~MapHas(oldNodes, newNodeId)
  THEN Write(flows, "new", newNodes.val[newNodeId], ADDED)
  ELSE flows

\* The first loop of compareFlows, from the i-th key of oldNodes on.
\* flows = [old, new]; the result is the pair after the loop.  A node object
\* is never falsy, so `if (!oldNode) continue` never fires.
RECURSIVE compareOldNodes(_, _, _, _)
compareOldNodes(i, oldNodes, newNodes, flows) ==
  IF i > Len(oldNodes.keys) THEN flows
  ELSE compareOldNodes(i + 1, oldNodes, newNodes,
         markModified(markDeleted(flows, oldNodes, newNodes, oldNodes.keys[i]),
                      oldNodes, newNodes, oldNodes.keys[i]))

\* The second loop of compareFlows, from the i-th key of newNodes on.
RECURSIVE compareNewNodes(_, _, _, _)
compareNewNodes(i, oldNodes, newNodes, flows) ==
  IF i > Len(newNodes.keys) THEN flows
  ELSE compareNewNodes(i + 1, oldNodes, newNodes,
         markAdded(flows, oldNodes, newNodes, newNodes.keys[i]))

\* compareFlows(oldFlow, newFlow): the two flows as the call leaves them, and
\* the assignments to diffStatus it has made
compareFlows(oldFlow, newFlow) ==
  LET oldNodes == NodesOf(oldFlow)
      newNodes == NodesOf(newFlow)
  IN  compareNewNodes(1, oldNodes, newNodes,
        compareOldNodes(1, oldNodes, newNodes,
                        [old |-> oldFlow, new |-> newFlow, writes |-> <<>>]))

(***************************************************************************)
(* The flow parser (FlowParser.generateFlowDefinition).  A raw document is *)
(* modelled by what deserializing it gives: [ok, Flow], where ok tells     *)
(* whether the text is well-formed markup and Flow is the key-value tree   *)
(* of the <Flow> element.  In that tree an element that occurs once is a   *)
(* bare value and one that occurs several times is an array.               *)
(***************************************************************************)
START_NODE_NAME == "FLOW_START"

\* the node kinds, in the canonical order
KindOrder ==
  <<"apexPluginCalls", "assignments", "collectionProcessors", "decisions",
    "loops", "orchestratedStages", "recordCreates", "recordDeletes",
    "recordLookups", "recordRollbacks", "recordUpdates", "screens", "steps",
    "subflows", "transforms", "waits", "actionCalls", "customErrors">>

Kinds == {KindOrder[i] : i \in 1..Len(KindOrder)}

\* the fields of the Start node that hold collections
StartArrayFields == {"filters", "scheduledPaths", "capabilityTypes"}

\* the errors of the parser
ParseError(kind, name) == [kind |-> kind, name |-> name]
MalformedDocument == ParseError("malformedDocument", "")
FlowStartNotDefined == ParseError("flowStartNotDefined", "")
CouldNotFindConnectedNode(name) == ParseError("couldNotFindConnectedNode", name)

\* ensureArray that wraps without looking whether the value is an array
ensureArray_AlwaysWraps(v) == IF ~Truthy(v) THEN v ELSE Arr(<<v>>)

\* a bare single occurrence becomes a one-element array, an array passes
\* through, an absent value stays absent
ensureArray(v) ==
  IF ~Truthy(v) THEN v ELSE IF IsArray(v) THEN v ELSE Arr(<<v>>)

\* the Start node with its collection fields normalized
normalizeStart(start) ==
  [start EXCEPT !.kv = [k \in DOMAIN start.kv |->
                          IF k \in StartArrayFields
                          THEN ensureArray(start.kv[k])
                          ELSE start.kv[k]]]

\* one transition
Transition(from, to, fault, label) ==
  [from |-> from, to |-> to, fault |-> fault, label |-> label]

\* the edge of one connector field of a node, if the field is there
connectorEdge(from, holder, field, fault, label) ==
  IF Truthy(Get(holder, field))
  THEN <<Transition(from, Get(Get(holder, field), "targetReference").s,
                    fault, label)>>
  ELSE <<>>

\* the edges of the elements i.. of an array whose elements each hold one
\* connector and are labelled by one of their fields (rules, scheduled paths)
RECURSIVE elementEdges(_, _, _, _)
elementEdges(from, arr, labelField, i) ==
  IF ~Truthy(arr) \/ i >= Length(arr) THEN <<>>
  ELSE connectorEdge(from, At(arr, i), "connector", FALSE,
                     Get(At(arr, i), labelField))
       \o elementEdges(from, arr, labelField, i + 1)

\* the edges of the Start node
startEdges(start) ==
  connectorEdge(START_NODE_NAME, start, "connector", FALSE, Undefined)
  \o elementEdges(START_NODE_NAME, Get(start, "scheduledPaths"), "pathType", 0)

\* nodeEdges that does not flag the edge of the fault connector
nodeEdges_FaultUnflagged(kind, node) ==
  LET name == Get(node, "name").s
  IN  CASE kind = "decisions" ->
             elementEdges(name, ensureArray(Get(node, "rules")), "label", 0)
             \o connectorEdge(name, node, "defaultConnector", FALSE,
                              Get(node, "defaultConnectorLabel"))
        [] kind = "loops" ->
             connectorEdge(name, node, "nextValueConnector", FALSE,
                           Str("for each"))
             \o connectorEdge(name, node, "noMoreValuesConnector", FALSE,
                              Undefined)
        [] OTHER ->
             connectorEdge(name, node, "connector", FALSE, Undefined)
             \o connectorEdge(name, node, "faultConnector", FALSE, Str("Fault"))

\* nodeEdges that leaves the fault connectors out
nodeEdges_NoFault(kind, node) ==
  LET name == Get(node, "name").s
  IN  CASE kind = "decisions" ->
             elementEdges(name, ensureArray(Get(node, "rules")), "label", 0)
             \o connectorEdge(name, node, "defaultConnector", FALSE,
                              Get(node, "defaultConnectorLabel"))
        [] kind = "loops" ->
             connectorEdge(name, node, "nextValueConnector", FALSE,
                           Str("for each"))
             \o connectorEdge(name, node, "noMoreValuesConnector", FALSE,
                              Undefined)
        [] OTHER ->
             connectorEdge(name, node, "connector", FALSE, Undefined)

\* the edges of one node, by the rule of its kind
nodeEdges(kind, node) ==
  LET name == Get(node, "name").s
  IN  CASE kind = "decisions" ->
             elementEdges(name, ensureArray(Get(node, "rules")), "label", 0)
             \o connectorEdge(name, node, "defaultConnector", FALSE,
                              Get(node, "defaultConnectorLabel"))
        [] kind = "loops" ->
             connectorEdge(name, node, "nextValueConnector", FALSE,
                           Str("for each"))
             \o connectorEdge(name, node, "noMoreValuesConnector", FALSE,
                              Undefined)
        [] OTHER ->
             connectorEdge(name, node, "connector", FALSE, Undefined)
             \o connectorEdge(name, node, "faultConnector", TRUE, Str("Fault"))

\* the edges of the nodes i.. of one collection
RECURSIVE collectionEdges(_, _, _)
collectionEdges(kind, arr, i) ==
  IF ~Truthy(arr) \/ i >= Length(arr) THEN <<>>
  ELSE nodeEdges(kind, At(arr, i)) \o collectionEdges(kind, arr, i + 1)

\* kindEdges that visits the kinds in the reverse of the canonical order
RECURSIVE kindEdges_Reversed(_, _)
kindEdges_Reversed(coll, k) ==
  IF k > Len(KindOrder) THEN <<>>
  ELSE kindEdges_Reversed(coll, k + 1)
       \o collectionEdges(KindOrder[k], coll[KindOrder[k]], 0)

\* the edges of the collections of the kinds k.. of the canonical order
RECURSIVE kindEdges(_, _)
kindEdges(coll, k) ==
  IF k > Len(KindOrder) THEN <<>>
  ELSE collectionEdges(KindOrder[k], coll[KindOrder[k]], 0)
       \o kindEdges(coll, k + 1)

\* nameToNode with the nodes i.. of one collection inserted
RECURSIVE setCollectionNodes(_, _, _, _)
setCollectionNodes(map, kind, arr, i) ==
  IF ~Truthy(arr) \/ i >= Length(arr) THEN map
  ELSE setCollectionNodes(
         MapSet(map, Get(At(arr, i), "name").s, NodeRef(kind, i)),
         kind, arr, i + 1)

\* nameToNode with the nodes of the kinds k.. inserted
RECURSIVE setFlowNodes(_, _, _)
setFlowNodes(map, coll, k) ==
  IF k > Len(KindOrder) THEN map
  ELSE setFlowNodes(
         setCollectionNodes(map, KindOrder[k], coll[KindOrder[k]], 0),
         coll, k + 1)

\* the transitions whose target does not resolve, in order
unresolved(transitions, map) ==
  SelectSeq(transitions, LAMBDA tr : ~MapHas(map, tr.to))

\* the ParsedFlow built from a well-formed document that has a Start node
parsedFlow(doc) ==
  LET coll == [kind \in Kinds |-> ensureArray(Get(doc.Flow, kind))]
      start == normalizeStart(Get(doc.Flow, "start"))
  IN  [label |-> Get(doc.Flow, "label"),
       processType |-> Get(doc.Flow, "processType"),
       start |-> start,
       coll |-> coll,
       nameToNode |->
         setFlowNodes(MapSet(NewMap, START_NODE_NAME, StartRef), coll, 1),
       transitions |-> startEdges(start) \o kindEdges(coll, 1)]

\* generateFlowDefinition without the check for the Start node
generateFlowDefinition_NoStartCheck(doc) ==
  IF ~doc.ok THEN [ok |-> FALSE, error |-> MalformedDocument]
  ELSE
    LET flow == parsedFlow(doc)
        dangling == unresolved(flow.transitions, flow.nameToNode)
    IN  IF dangling # <<>>
        THEN [ok |-> FALSE, error |-> CouldNotFindConnectedNode(dangling[1].to)]
        ELSE [ok |-> TRUE, flow |-> flow]

\* generateFlowDefinition without the validation of the transitions
generateFlowDefinition_NoValidation(doc) ==
  IF ~doc.ok THEN [ok |-> FALSE, error |-> MalformedDocument]
  ELSE IF ~Truthy(Get(doc.Flow, "start"))
  THEN [ok |-> FALSE, error |-> FlowStartNotDefined]
  ELSE [ok |-> TRUE, flow |-> parsedFlow(doc)]

\* generateFlowDefinition(): [ok |-> TRUE, flow] or [ok |-> FALSE, error]
generateFlowDefinition(doc) ==
  IF ~doc.ok THEN [ok |-> FALSE, error |-> MalformedDocument]
  ELSE IF ~Truthy(Get(doc.Flow, "start"))
  THEN [ok |-> FALSE, error |-> FlowStartNotDefined]
  ELSE
    LET flow == parsedFlow(doc)
        dangling == unresolved(flow.transitions, flow.nameToNode)
    IN  IF dangling # <<>>
        THEN [ok |-> FALSE, error |-> CouldNotFindConnectedNode(dangling[1].to)]
        ELSE [ok |-> TRUE, flow |-> flow]

(***************************************************************************)
(* Text.  A string is the sequence of its lines (what splitting it at EOL  *)
(* gives), a line the sequence of its pieces; "" is one line without       *)
(* pieces.  Pieces are the literal parts and the interpolated values of    *)
(* the template strings that build a line; an empty piece is left out.     *)
(***************************************************************************)
EmptyText == <<<<>>>>

\* the pieces of `${v}`
Interpolated(v) ==
  CASE v.t = "string" -> IF v.s = "" THEN <<>> ELSE <<v.s>>
    [] v.t = "undefined" -> <<"undefined">>
    [] v.t = "null" -> <<"null">>
    [] OTHER -> <<"[object Object]">>

\* texts.join(EOL): the lines of all texts, "" for no text at all
RECURSIVE JoinEOL(_)
JoinEOL(texts) ==
  IF texts = <<>> THEN EmptyText
  ELSE IF Len(texts) = 1 THEN texts[1]
  ELSE texts[1] \o JoinEOL(Tail(texts))

\* lines.join(separator) within one line
RECURSIVE JoinPieces(_, _)
JoinPieces(lines, separator) ==
  IF lines = <<>> THEN <<>>
  ELSE IF Len(lines) = 1 THEN lines[1]
  ELSE lines[1] \o <<separator>> \o JoinPieces(Tail(lines), separator)

\* A label with a double quote in it, and s.replaceAll('"', "'") on the
\* strings of the model (no other string of the model has a double quote).
QuotedLabel == "\"L2\""
ReplaceQuotes(s) == IF s = QuotedLabel THEN "'L2'" ELSE s

(***************************************************************************)
(* uml_generator.ts: UmlGenerator, the algorithm shared by all diagram     *)
(* tools.                                                                  *)
(***************************************************************************)
DiagramNode(id, label, type, color, icon, diffStatus, innerNodes) ==
  [id |-> id, label |-> label, type |-> type, color |-> color, icon |-> icon,
   diffStatus |-> diffStatus, innerNodes |-> innerNodes]

InnerNode(id, type, label, content) ==
  [id |-> id, type |-> type, label |-> label, content |-> content]

\* the innerNodes property: not set, or an array of inner nodes
NoInnerNodes == [defined |-> FALSE, nodes |-> <<>>]
InnerNodes(nodes) == [defined |-> TRUE, nodes |-> nodes]

\* the fields of FlowElementReferenceOrValue that hold a reference or text,
\* in the order in which toString() falls through them
ReferenceFields ==
  <<"stringValue", "sobjectValue", "apexValue", "elementReference",
    "formulaExpression", "setupReference", "transformValueReference",
    "formulaDataType">>

\* a ?? b ?? ... over the fields i.. of ReferenceFields
RECURSIVE firstDefined(_, _)
firstDefined(element, i) ==
  IF i > Len(ReferenceFields) THEN <<>>
  ELSE IF Get(element, ReferenceFields[i]).t \notin {"undefined", "null"}
  THEN Interpolated(Get(element, ReferenceFields[i]))
  ELSE firstDefined(element, i + 1)

\* toString(element), as the pieces of the string
toString(element) ==
  IF ~Truthy(element) THEN <<>>
  ELSE IF \E i \in 1..Len(ReferenceFields) :
            Truthy(Get(element, ReferenceFields[i]))
  THEN firstDefined(element, 1)
  ELSE IF Truthy(Get(element, "dateTimeValue"))
  THEN <<"toLocaleDateString">> \o Interpolated(Get(element, "dateTimeValue"))
  ELSE IF Truthy(Get(element, "dateValue"))
  THEN <<"toLocaleDateString">> \o Interpolated(Get(element, "dateValue"))
  ELSE IF Truthy(Get(element, "numberValue"))
  THEN Interpolated(Get(element, "numberValue"))
  ELSE IF Get(element, "booleanValue").t # "undefined"
  THEN Interpolated(Get(element, "booleanValue"))
  ELSE <<>>

\* `${index + 1}. ${filter.field} ${filter.operator} ${toString(filter.value)}`
filterLine(filter, index) ==
  <<ToString(index + 1) \o ".">> \o Interpolated(Get(filter, "field"))
  \o Interpolated(Get(filter, "operator")) \o toString(Get(filter, "value"))

\* one line per element of an array, built by line(element, index)
arrayLines(arr, line(_, _)) ==
  [i \in 1..Length(arr) |-> line(At(arr, i - 1), i - 1)]

\* the line of an optional field of the Start node, if the field is truthy
fieldLine(holder, field, caption) ==
  IF Truthy(Get(holder, field))
  THEN <<<<caption>> \o Interpolated(Get(holder, field))>>
  ELSE <<>>

\* the fallback line of the entry criteria
NO_ENTRY_CRITERIA == <<"No specific entry criteria defined">>

\* getFlowStart(): the entry criteria collected from the flow and its Start
\* node, before the fallback
collectedCriteria(flow) ==
  LET start == flow.start
      filters == Get(start, "filters")
      schedule == Get(start, "schedule")
      capabilities == Get(start, "capabilityTypes")
  IN  (IF Truthy(flow.processType)
       THEN <<<<"Process Type:">> \o Interpolated(flow.processType)>>
       ELSE <<>>)
      \o fieldLine(start, "triggerType", "Trigger Type:")
      \o fieldLine(start, "object", "Object:")
      \o fieldLine(start, "recordTriggerType", "Record Trigger:")
      \o fieldLine(start, "entryType", "Entry Type:")
      \o (IF /\ Truthy(Get(start, "filterLogic"))
             /\ IsArray(filters)
             /\ Length(filters) > 0
          THEN fieldLine(start, "filterLogic", "Filter Logic:")
               \o arrayLines(filters, filterLine)
          ELSE <<>>)
      \o fieldLine(start, "filterFormula", "Filter Formula:")
      \o (IF Truthy(schedule)
          THEN <<<<"Schedule:">> \o Interpolated(Get(schedule, "frequency"))
                 \o <<"starting">> \o Interpolated(Get(schedule, "startDate"))
                 \o <<"at">> \o Interpolated(Get(schedule, "startTime"))>>
          ELSE <<>>)
      \o (IF IsArray(capabilities) /\ Length(capabilities) > 0
          THEN arrayLines(capabilities,
                 LAMBDA capability, index :
                   <<"Capability", ToString(index + 1) \o ":">>
                   \o Interpolated(Get(capability, "capabilityName")))
          ELSE <<>>)
      \o fieldLine(start, "form", "Form:")
      \o fieldLine(start, "segment", "Segment:")
      \o fieldLine(start, "flowRunAsUser", "Run As:")

\* getFlowStart() with the fallback line always added
entryCriteria_AlwaysFallback(flow) ==
  collectedCriteria(flow) \o <<NO_ENTRY_CRITERIA>>

\* getFlowStart(): the content of the entry criteria block
entryCriteria(flow) ==
  IF collectedCriteria(flow) = <<>>
  THEN <<NO_ENTRY_CRITERIA>>
  ELSE collectedCriteria(flow)

\* getFlowStart(): the DiagramNode of the Start node
flowStartNode(flow) ==
  DiagramNode(START_NODE_NAME, Str("Flow Start"), "Flow Start", "NONE", "NONE",
              Get(flow.start, "diffStatus"),
              InnerNodes(<<InnerNode(<<"FlowStart__EntryCriteria">>,
                                     <<"Flow Details">>, <<>>,
                                     entryCriteria(flow))>>))


\* `${node.name}${suffix}`
nodeId(node, suffix) == Interpolated(Get(node, "name")) \o <<suffix>>

\* for (const x of v) works on arrays and strings
Iterable(v) == v.t \in {"array", "string"}

\* getFlowAssignmentInnerNodes
assignmentInnerNodes(node) ==
  IF ~Truthy(Get(node, "assignmentItems")) THEN <<>>
  ELSE <<InnerNode(nodeId(node, "__Assignments"), <<>>, <<>>,
           arrayLines(Get(node, "assignmentItems"),
             LAMBDA item, index :
               Interpolated(Get(item, "assignToReference"))
               \o (IF Get(item, "operator") = Str("Assign")
                   THEN <<"=">>
                   ELSE Interpolated(Get(item, "operator")))
               \o toString(Get(item, "value"))))>>

\* getFlowDecisionInnerNodes
decisionInnerNodes(node) ==
  IF ~Truthy(Get(node, "rules")) THEN <<>>
  ELSE [r \in 1..Length(Get(node, "rules")) |->
          LET rule == At(Get(node, "rules"), r - 1)
              conditions ==
                arrayLines(Get(rule, "conditions"),
                  LAMBDA condition, index :
                    <<ToString(index + 1) \o ".">>
                    \o Interpolated(Get(condition, "leftValueReference"))
                    \o Interpolated(Get(condition, "operator"))
                    \o toString(Get(condition, "rightValue")))
          IN  InnerNode(Interpolated(Get(rule, "name")), <<"Rule">>,
                        Interpolated(Get(rule, "label")),
                        IF Len(conditions) > 1
                        THEN Append(conditions,
                               <<"Logic:">>
                               \o Interpolated(Get(rule, "conditionLogic")))
                        ELSE conditions)]

\* getFlowOrchestratedStageInnerNodes
orchestratedStageInnerNodes(node) ==
  IF ~Truthy(Get(node, "stageSteps")) THEN <<>>
  ELSE [s \in 1..Length(Get(node, "stageSteps")) |->
          LET step == At(Get(node, "stageSteps"), s - 1)
          IN  InnerNode(Interpolated(Get(node, "name")) \o <<".">>
                          \o Interpolated(Get(step, "actionName")),
                        <<"Step">>,
                        <<ToString(s) \o ".">> \o Interpolated(Get(step, "label")),
                        <<>>)]

\* getFieldsQueried, getFilterCriteria and getLimit of a record lookup
getFieldsQueried(node) ==
  LET fields == Get(node, "queriedFields")
  IN  IF IsArray(fields) /\ Length(fields) > 0
      THEN <<<<"Fields Queried:">>,
             JoinPieces([i \in 1..Length(fields) |->
                           Interpolated(At(fields, i - 1))], ",")>>
      ELSE <<<<"Fields Queried: all">>>>

getFilterCriteria(node) ==
  <<<<"Filter Logic:">>
      \o (IF Truthy(Get(node, "filterLogic"))
          THEN Interpolated(Get(node, "filterLogic"))
          ELSE <<"None">>)>>
  \o (IF IsArray(Get(node, "filters"))
      THEN arrayLines(Get(node, "filters"), filterLine)
      ELSE <<>>)

getLimit(node) ==
  IF Truthy(Get(node, "getFirstRecordOnly"))
  THEN <<"Limit: First Record Only">>
  ELSE IF Truthy(Get(node, "limit"))
  THEN <<"Limit:">> \o Interpolated(Get(node, "limit"))
  ELSE <<"Limit: All Records">>

\* getFlowRecordLookupInnerNodes
recordLookupInnerNodes(node) ==
  <<InnerNode(nodeId(node, "__LookupDetails"),
              <<"sObject:">> \o Interpolated(Get(node, "object")),
              <<>>,
              getFieldsQueried(node) \o getFilterCriteria(node)
              \o <<getLimit(node)>>)>>

\* getFlowRecordUpdateInnerNodes
recordUpdateInnerNodes(node) ==
  LET filters == Get(node, "filters")
      assignments == Get(node, "inputAssignments")
  IN  <<InnerNode(nodeId(node, "__UpdateDetails"),
                  IF Truthy(Get(node, "inputReference"))
                  THEN <<"Reference Update">> ELSE <<"Direct Update">>,
                  IF Truthy(Get(node, "inputReference"))
                  THEN Interpolated(Get(node, "inputReference"))
                  ELSE <<"sObject:">> \o Interpolated(Get(node, "object")),
                  (IF IsArray(filters) /\ Length(filters) > 0
                   THEN <<<<"Filter Criteria:">>>>
                        \o arrayLines(filters, filterLine)
                   ELSE <<>>)
                  \o (IF IsArray(assignments) /\ Length(assignments) > 0
                      THEN <<<<"Field Updates:">>>>
                           \o arrayLines(assignments,
                                LAMBDA assignment, index :
                                  Interpolated(Get(assignment, "field"))
                                  \o <<"=">>
                                  \o toString(Get(assignment, "value")))
                      ELSE <<>>))>>

\* getFlowCustomErrorInnerNodes
customErrorInnerNodes(node) ==
  LET messages == Get(node, "customErrorMessages")
  IN  <<InnerNode(nodeId(node, "__ErrorDetails"),
                  IF Truthy(Get(node, "description"))
                  THEN Interpolated(Get(node, "description"))
                  ELSE <<"Custom Error Details">>,
                  <<"Error Messages:">>,
                  IF IsArray(messages) /\ Length(messages) > 0
                  THEN arrayLines(messages,
                         LAMBDA message, index :
                           <<ToString(index + 1) \o ".">>
                           \o Interpolated(Get(message, "errorMessage"))
                           \o (IF Truthy(Get(message, "fieldSelection"))
                               THEN <<"(Field:">>
                                    \o Interpolated(Get(message, "fieldSelection"))
                                    \o <<")">>
                               ELSE <<>>))
                  ELSE <<>>)>>

\* the type, color and icon that the getter of each kind gives its nodes
KindStyle(kind) ==
  CASE kind = "apexPluginCalls" -> <<"Apex Plugin Call", "NONE", "CODE">>
    [] kind = "assignments" -> <<"Assignment", "ORANGE", "ASSIGNMENT">>
    [] kind = "collectionProcessors" -> <<"Collection Processor", "NONE", "LOOP">>
    [] kind = "decisions" -> <<"Decision", "ORANGE", "DECISION">>
    [] kind = "loops" -> <<"Loop", "ORANGE", "LOOP">>
    [] kind = "orchestratedStages" -> <<"Orchestrated Stage", "NAVY", "RIGHT">>
    [] kind = "recordCreates" -> <<"Record Create", "PINK", "CREATE_RECORD">>
    [] kind = "recordDeletes" -> <<"Record Delete", "PINK", "DELETE">>
    [] kind = "recordLookups" -> <<"Record Lookup", "PINK", "LOOKUP">>
    [] kind = "recordRollbacks" -> <<"Record Rollback", "PINK", "NONE">>
    [] kind = "recordUpdates" -> <<"Record Update", "PINK", "UPDATE">>
    [] kind = "screens" -> <<"Screen", "BLUE", "SCREEN">>
    [] kind = "steps" -> <<"Step", "NONE", "STAGE_STEP">>
    [] kind = "subflows" -> <<"Subflow", "NAVY", "RIGHT">>
    [] kind = "transforms" -> <<"Transform", "NONE", "CODE">>
    [] kind = "waits" -> <<"Wait", "NONE", "WAIT">>
    [] kind = "actionCalls" -> <<"Action Call", "NAVY", "CODE">>
    [] kind = "customErrors" -> <<"Custom Error", "NAVY", "ERROR">>

\* the innerNodes that the getter of each kind gives its nodes
kindInnerNodes(kind, node) ==
  CASE kind = "assignments" -> InnerNodes(assignmentInnerNodes(node))
    [] kind = "decisions" -> InnerNodes(decisionInnerNodes(node))
    [] kind = "orchestratedStages" ->
         InnerNodes(orchestratedStageInnerNodes(node))
    [] kind = "recordLookups" -> InnerNodes(recordLookupInnerNodes(node))
    [] kind = "recordUpdates" -> InnerNodes(recordUpdateInnerNodes(node))
    [] kind = "customErrors" -> InnerNodes(customErrorInnerNodes(node))
    [] OTHER -> NoInnerNodes

\* getFlowApexPluginCall ... getFlowCustomError: the DiagramNode of a node
flowNode(kind, node) ==
  DiagramNode(Get(node, "name").s, Get(node, "label"), KindStyle(kind)[1],
              KindStyle(kind)[2], KindStyle(kind)[3],
              Get(node, "diffStatus"), kindInnerNodes(kind, node))

\* The getter of a kind throws a TypeError when it iterates over a value
\* that is there and is not an array.
getterThrows(kind, node) ==
  CASE kind = "assignments" ->
         Truthy(Get(node, "assignmentItems"))
         /\ ~Iterable(Get(node, "assignmentItems"))
    [] kind = "decisions" ->
         /\ Truthy(Get(node, "rules"))
         /\ \/ ~Iterable(Get(node, "rules"))
            \/ \E r \in 0..(Length(Get(node, "rules")) - 1) :
                 ~IsArray(Get(At(Get(node, "rules"), r), "conditions"))
    [] kind = "orchestratedStages" ->
         Truthy(Get(node, "stageSteps")) /\ ~Iterable(Get(node, "stageSteps"))
    [] kind = "recordLookups" ->
         \/ Get(node, "queriedFields").t = "string"
              /\ Get(node, "queriedFields").s # ""
         \/ Get(node, "filters").t \notin {"undefined", "null", "array"}
    [] OTHER -> FALSE

(***************************************************************************)
(* The diagram tools: PlantUmlGenerator (plantuml_generator.ts) and        *)
(* MermaidGenerator (mermaid_generator.ts), the four primitives each of    *)
(* them implements.                                                        *)
(***************************************************************************)
Tools == {"plantuml", "mermaid"}

\* a piece that is left out when it is the empty string
Piece(s) == IF s = "" THEN <<>> ELSE <<s>>

\* PlantUmlGenerator: SkinColor, ICON_MAP, DIFF_ICON_MAP, DIFF_TO_STYLE_CLASS
PlantUmlSkinColor(color) ==
  CASE color = "PINK" -> "<<Pink>>"
    [] color = "ORANGE" -> "<<Orange>>"
    [] color = "NAVY" -> "<<Navy>>"
    [] color = "BLUE" -> "<<Blue>>"
    [] OTHER -> ""

PlantUmlIcon(icon) ==
  CASE icon = "ASSIGNMENT" -> "<&menu>"
    [] icon = "CODE" -> "<&code>"
    [] icon = "CREATE_RECORD" -> "<&medical-cross>"
    [] icon = "DECISION" -> "<&fork>"
    [] icon = "LOOKUP" -> "<&magnifying-glass>"
    [] icon = "LOOP" -> "<&loop>"
    [] icon = "RIGHT" -> "<&chevron-right>"
    [] icon = "SCREEN" -> "<&browser>"
    [] icon = "STAGE_STEP" -> "<&justify-center>"
    [] icon = "UPDATE" -> "<&pencil>"
    [] icon = "ERROR" -> "<&ban>"
    [] OTHER -> ""

PlantUmlDiffIcon(diffStatus) ==
  CASE diffStatus = Str(ADDED) -> "**<&plus{scale=2}>**"
    [] diffStatus = Str(DELETED) -> "**<&minus{scale=2}>**"
    [] diffStatus = Str(MODIFIED) -> "**<&pencil{scale=2}>**"
    [] OTHER -> "undefined"

PlantUmlDiffStyleClass(diffStatus) ==
  CASE diffStatus = Str(ADDED) -> "<<Added>>"
    [] diffStatus = Str(DELETED) -> "<<Deleted>>"
    [] diffStatus = Str(MODIFIED) -> "<<Modified>>"
    [] OTHER -> "undefined"

\* PlantUmlGenerator.getHeader
plantUmlHeader(label) ==
  <<<<"skinparam State {">>,
    <<"BackgroundColor<<Pink>> #F9548A">>, <<"FontColor<<Pink>> white">>,
    <<>>,
    <<"BackgroundColor<<Orange>> #DD7A00">>, <<"FontColor<<Orange>> white">>,
    <<>>,
    <<"BackgroundColor<<Navy>> #344568">>, <<"FontColor<<Navy>> white">>,
    <<>>,
    <<"BackgroundColor<<Blue>> #1B96FF">>, <<"FontColor<<Blue>> white">>,
    <<>>,
    <<"BorderColor<<Deleted>> red">>, <<"BorderThickness<<Deleted>> 5">>,
    <<>>,
    <<"BorderColor<<Added>> green">>, <<"BorderThickness<<Added>> 5">>,
    <<>>,
    <<"BorderColor<<Modified>> orange">>, <<"BorderThickness<<Modified>> 5">>,
    <<"}">>,
    <<>>,
    <<"title">> \o Interpolated(label)>>

\* texts.join(`${EOL}${separator}${EOL}`)
RECURSIVE JoinWithLine(_, _)
JoinWithLine(texts, separator) ==
  IF texts = <<>> THEN EmptyText
  ELSE IF Len(texts) = 1 THEN texts[1]
  ELSE texts[1] \o <<separator>> \o JoinWithLine(Tail(texts), separator)

\* PlantUmlGenerator.generateInnerNodesString
plantUmlInnerNodes(parent) ==
  LET prefix == <<parent.id, ":">>
      text(inner) ==
        LET bold == IF inner.type # <<>>
                    THEN <<prefix \o <<"**">> \o inner.type \o <<"**">>>>
                    ELSE EmptyText
            label == IF inner.label # <<>>
                     THEN <<prefix \o <<"__">> \o inner.label \o <<"__">>>>
                     ELSE EmptyText
            content == IF inner.content = <<>> THEN EmptyText
                       ELSE [i \in 1..Len(inner.content) |->
                               prefix \o inner.content[i]]
        IN  JoinEOL(SelectSeq(<<bold, label, content>>,
                              LAMBDA part : part # EmptyText))
  IN  JoinWithLine([i \in 1..Len(parent.innerNodes.nodes) |->
                      text(parent.innerNodes.nodes[i])],
                   <<parent.id, ":", "---">>)

\* PlantUmlGenerator.toUmlString
plantUmlNode(node) ==
  LET diffIcon == IF Truthy(node.diffStatus)
                  THEN PlantUmlDiffIcon(node.diffStatus) ELSE ""
      diffStyleClass == IF Truthy(node.diffStatus)
                        THEN PlantUmlDiffStyleClass(node.diffStatus) ELSE ""
      result ==
        <<<<"state">> \o Piece(diffIcon)
          \o <<"**", node.type, "**">> \o Piece(PlantUmlIcon(node.icon))
          \o <<"\\n">> \o Piece(ReplaceQuotes(node.label.s))
          \o <<"as", node.id>> \o Piece(PlantUmlSkinColor(node.color))
          \o Piece(diffStyleClass)>>
  IN  IF node.innerNodes.defined /\ Len(node.innerNodes.nodes) > 0
      THEN result \o plantUmlInnerNodes(node)
      ELSE result

\* PlantUmlGenerator.getTransition
plantUmlTransition(transition) ==
  <<<<IF transition.from = "FLOW_START" THEN "[*]" ELSE transition.from,
      IF transition.fault THEN "-[#red,dashed]->" ELSE "-->",
      transition.to>>
    \o (IF Truthy(transition.label)
        THEN <<":">> \o Interpolated(transition.label)
        ELSE <<>>)>>

\* MermaidGenerator: STYLE_CLASS_MAP, ICON_MAP, DIFF_STATUS_SYMBOL_MAP and
\* DIFF_STATUS_COLOR_MAP
MermaidStyleClass(color) ==
  CASE color = "PINK" -> "pink"
    [] color = "ORANGE" -> "orange"
    [] color = "NAVY" -> "navy"
    [] color = "BLUE" -> "blue"
    [] OTHER -> ""

MermaidIcon(icon) ==
  IF icon \in {"NONE", "ERROR"} THEN <<>> ELSE <<"emoji", icon>>

MermaidDiffStatus(diffStatus) ==
  CASE diffStatus = Str(ADDED) -> <<"<span>", "green", "+">>
    [] diffStatus = Str(DELETED) -> <<"<span>", "red", "-">>
    [] diffStatus = Str(MODIFIED) -> <<"<span>", "#DD7A00", "delta">>
    [] OTHER -> <<"<span>", "undefined", "undefined">>

\* MermaidGenerator.getHeader
mermaidHeader(label) ==
  <<<<"---">>,
    <<"title:">> \o Interpolated(label),
    <<"---">>,
    <<"stateDiagram-v2">>,
    <<>>,
    <<"classDef pink fill:#F9548A, color:white">>,
    <<"classDef orange fill:#DD7A00, color:white">>,
    <<"classDef navy fill:#344568, color:white">>,
    <<"classDef blue fill:#1B96FF, color:white">>,
    <<>>>>

\* MermaidGenerator.sanitizeId: id.replace(/[^a-zA-Z0-9]/g, "_").  The ids
\* of the model are made of letters, digits and "_", which it leaves as
\* they are.
sanitizeId(id) == id

\* MermaidGenerator.getNodeLabel
mermaidNodeLabel(node) ==
  (IF Truthy(node.diffStatus) THEN MermaidDiffStatus(node.diffStatus) ELSE <<>>)
  \o <<"<b>", node.type, "</b>">> \o MermaidIcon(node.icon)
  \o <<"<br>", "<u>">> \o Piece(ReplaceQuotes(node.label.s)) \o <<"</u>">>

\* MermaidGenerator.formatInnerNodeLabel
mermaidInnerNodeLabel(inner) ==
  <<"<b>">> \o inner.type \o <<"</b>", "<br >", "<u>">>
  \o [i \in 1..Len(inner.label) |-> ReplaceQuotes(inner.label[i])]
  \o <<"</u>", "<br>">>
  \o JoinPieces([i \in 1..Len(inner.content) |->
                   [j \in 1..Len(inner.content[i]) |->
                      ReplaceQuotes(inner.content[i][j])]],
                "<br>")

\* MermaidGenerator.toUmlString
mermaidNode(node) ==
  LET id == sanitizeId(node.id)
      styleClass == MermaidStyleClass(node.color)
      content ==
        IF node.innerNodes.defined /\ Len(node.innerNodes.nodes) > 0
        THEN JoinPieces(<<mermaidNodeLabel(node)>>
                        \o [i \in 1..Len(node.innerNodes.nodes) |->
                              mermaidInnerNodeLabel(node.innerNodes.nodes[i])],
                        "<hr>")
        ELSE mermaidNodeLabel(node)
  IN  <<<<"state">> \o content \o <<"as", id>>>>
      \o (IF styleClass # "" THEN <<<<"class", id, styleClass>>>> ELSE <<>>)

\* MermaidGenerator.getTransition
mermaidTransition(transition) ==
  LET faultIndicator == IF transition.fault THEN <<"fault">> ELSE <<>>
  IN  <<<<sanitizeId(transition.from), "-->", sanitizeId(transition.to)>>
        \o (IF Truthy(transition.label)
            THEN <<":">> \o faultIndicator \o Interpolated(transition.label)
                 \o faultIndicator
            ELSE <<>>)>>

\* the four primitives of the generator of a tool
getHeader(tool, label) ==
  IF tool = "plantuml" THEN plantUmlHeader(label) ELSE mermaidHeader(label)

toUmlString(tool, node) ==
  IF tool = "plantuml" THEN plantUmlNode(node) ELSE mermaidNode(node)

getTransition(tool, transition) ==
  IF tool = "plantuml"
  THEN plantUmlTransition(transition)
  ELSE mermaidTransition(transition)

getFooter(tool) == EmptyText

\* toUmlString of both tools calls a string method on node.label, which
\* throws a TypeError when the label is not a string
toUmlStringThrows(tool, node) == node.label.t # "string"

(***************************************************************************)
(* UmlGenerator.generateUml.  The generator of a tool inherits it and      *)
(* implements the four primitives; what generateUml hands to them is kept  *)
(* as a sequence of calls, one section of the diagram after the other.     *)
(***************************************************************************)
Call(primitive, argument) == [primitive |-> primitive, argument |-> argument]

\* parsedFlow.transitions, which a flow that was not parsed may lack
TransitionsOf(flow) ==
  IF "transitions" \in DOMAIN flow THEN flow.transitions ELSE <<>>

\* getFlowStart(): no call and "" without a Start node
getFlowStart(flow) ==
  IF ~Truthy(flow.start) THEN <<>>
  ELSE <<Call("toUmlString", flowStartNode(flow))>>

\* processFlowElements(parsedFlow.<kind>, getter of the kind):
\* elements?.map(...), nothing for a collection that is not there
processFlowElements(elements, kind) ==
  IF elements.t \in {"undefined", "null"} THEN <<>>
  ELSE [i \in 1..Length(elements) |->
          Call("toUmlString", flowNode(kind, At(elements, i - 1)))]

\* processTransitions(parsedFlow.transitions)
processTransitions(flow) ==
  [i \in 1..Len(TransitionsOf(flow)) |->
     Call("getTransition", TransitionsOf(flow)[i])]

\* generateUml() with a Start section that leaves the inner nodes out for
\* one of the tools
umlSections_ToolDependent(tool, flow) ==
  <<<<Call("getHeader", flow.label)>>,
    IF ~Truthy(flow.start) THEN <<>>
    ELSE <<Call("toUmlString",
                IF tool = "mermaid"
                THEN [flowStartNode(flow) EXCEPT !.innerNodes = NoInnerNodes]
                ELSE flowStartNode(flow))>>>>
  \o [k \in 1..Len(KindOrder) |->
        processFlowElements(flow.coll[KindOrder[k]], KindOrder[k])]
  \o <<processTransitions(flow), <<Call("getFooter", <<>>)>>>>

\* generateUml() with the transitions ahead of the nodes
umlSections_TransitionsFirst(tool, flow) ==
  <<<<Call("getHeader", flow.label)>>, getFlowStart(flow),
    processTransitions(flow)>>
  \o [k \in 1..Len(KindOrder) |->
        processFlowElements(flow.coll[KindOrder[k]], KindOrder[k])]
  \o <<<<Call("getFooter", <<>>)>>>>

\* generateUml(): the elements of the array `result` before the filter, as
\* the calls that the generator of the tool makes for each of them
umlSections(tool, flow) ==
  <<<<Call("getHeader", flow.label)>>, getFlowStart(flow)>>
  \o [k \in 1..Len(KindOrder) |->
        processFlowElements(flow.coll[KindOrder[k]], KindOrder[k])]
  \o <<processTransitions(flow), <<Call("getFooter", <<>>)>>>>

\* all calls of generateUml(), in the order in which they are made
RECURSIVE Flatten(_)
Flatten(seqs) == IF seqs = <<>> THEN <<>> ELSE seqs[1] \o Flatten(Tail(seqs))

umlCalls(tool, flow) == Flatten(umlSections(tool, flow))

\* what the primitive of a call returns
primitive(tool, call) ==
  CASE call.primitive = "getHeader" -> getHeader(tool, call.argument)
    [] call.primitive = "toUmlString" -> toUmlString(tool, call.argument)
    [] call.primitive = "getTransition" -> getTransition(tool, call.argument)
    [] call.primitive = "getFooter" -> getFooter(tool)

\* the string of one element of `result`: what its calls return, joined
sectionText(tool, section) ==
  JoinEOL([i \in 1..Len(section) |-> primitive(tool, section[i])])

\* generateUml() without the filter of the empty elements
generateUml_Unfiltered(tool, flow) ==
  LET sections == umlSections(tool, flow)
  IN  JoinEOL([i \in 1..Len(sections) |-> sectionText(tool, sections[i])])

\* generateUml(): result.filter((element) => element !== "").join(EOL)
generateUml(tool, flow) ==
  LET sections == umlSections(tool, flow)
  IN  JoinEOL(SelectSeq([i \in 1..Len(sections) |->
                           sectionText(tool, sections[i])],
                        LAMBDA text : text # EmptyText))

\* getFlowStart() throws a TypeError when it calls forEach on a value that
\* has a length and is not an array
getFlowStartThrows(flow) ==
  LET NonEmptyString(v) == v.t = "string" /\ v.s # ""
  IN  /\ Truthy(flow.start)
      /\ \/ /\ Truthy(Get(flow.start, "filterLogic"))
            /\ NonEmptyString(Get(flow.start, "filters"))
         \/ NonEmptyString(Get(flow.start, "capabilityTypes"))

\* processFlowElements calling map() on a collection that is not there
processFlowElementsThrows_NoOptionalChaining(tool, elements, kind) ==
  \/ ~IsArray(elements)
  \/ \E i \in 0..(Length(elements) - 1) :
       \/ getterThrows(kind, At(elements, i))
       \/ toUmlStringThrows(tool, flowNode(kind, At(elements, i)))

\* processFlowElements throws a TypeError when the collection is there and
\* has no map(), and whenever the getter of a node or toUmlString throws
processFlowElementsThrows(tool, elements, kind) ==
  /\ elements.t \notin {"undefined", "null"}
  /\ \/ ~IsArray(elements)
     \/ \E i \in 0..(Length(elements) - 1) :
          \/ getterThrows(kind, At(elements, i))
          \/ toUmlStringThrows(tool, flowNode(kind, At(elements, i)))

\* generateUml() throws when one of its steps does
generateUmlThrows(tool, flow) ==
  \/ getFlowStartThrows(flow)
  \/ \E kind \in Kinds : processFlowElementsThrows(tool, flow.coll[kind], kind)

\* UmlGeneratorContext.generateDiagram: generateUml() of the generator of
\* the configured diagram tool
generateDiagram(tool, flow) ==
  IF generateUmlThrows(tool, flow)
  THEN [ok |-> FALSE, error |-> "TypeError"]
  ELSE [ok |-> TRUE, uml |-> generateUml(tool, flow)]

(***************************************************************************)
(* The documents the model reads.  A document is laid out by a plan: for   *)
(* each name either no node or a node of one of the NodeShapes, one of the *)
(* StartShapes, and whether single occurrences are written as bare values  *)
(* (what deserializing gives) or as explicit arrays of one.  Node names    *)
(* are unique within a document.                                           *)
(***************************************************************************)
NameTable == <<"A", "B", "C", "D", "E", "F">>
NameIds == 1..NumNames
Names == {NameTable[i] : i \in NameIds}
\* the name after the i-th, cyclically
NextName(i) == NameTable[(i % NumNames) + 1]

Connector(target) == Obj([targetReference |-> Str(target)])

NodeShapes == {"plain", "relabelled", "linked", "selfLinked", "lookup", "loop"}

\* the kind and the body of the node of a shape named NameTable[i]
ShapeKind(shape) ==
  CASE shape = "lookup" -> "recordLookups"
    [] shape = "loop" -> "loops"
    [] OTHER -> "assignments"

ShapeNode(shape, i) ==
  LET name == Str(NameTable[i])
  IN  CASE shape = "plain" ->
             Obj([name |-> name, label |-> Str("L1")])
        [] shape = "relabelled" ->
             Obj([name |-> name, label |-> Str(QuotedLabel)])
        [] shape = "linked" ->
             Obj([name |-> name, label |-> Str("L1"),
                  connector |-> Connector(NextName(i))])
        [] shape = "selfLinked" ->
             Obj([name |-> name, label |-> Str("L1"),
                  connector |-> Connector(NameTable[i])])
        [] shape = "lookup" ->
             Obj([name |-> name, label |-> Str("L1"),
                  connector |-> Connector(NameTable[i]),
                  faultConnector |-> Connector(NextName(i))])
        [] shape = "loop" ->
             Obj([name |-> name, label |-> Str("L1"),
                  nextValueConnector |-> Connector(NameTable[i])])
        [] shape = "unlabelled" ->
             Obj([name |-> name])

Filter(field) ==
  Obj([field |-> Str(field), operator |-> Str("IsNull"),
       value |-> Obj([booleanValue |-> Str("true")])])

ScheduledPath(target) ==
  Obj([pathType |-> Str("AsyncAfterCommit"), connector |-> Connector(target)])

StartShapes == {"none", "minimal", "filtered", "filteredTwice"}

\* a single occurrence: bare, or an explicit array of one
Single(v, arrays) == IF arrays THEN Arr(<<v>>) ELSE v

\* the Start element of a shape (a truthy value), if the shape has one
StartNode(shape, arrays) ==
  CASE shape = "minimal" ->
         Obj([locationX |-> Str("50")])
    [] shape = "filtered" ->
         Obj([locationX |-> Str("50"),
              connector |-> Connector(NameTable[1]),
              filterLogic |-> Str("and"),
              filters |-> Single(Filter("Name"), arrays),
              scheduledPaths |-> Single(ScheduledPath(NameTable[1]), arrays),
              capabilityTypes |->
                Single(Obj([capabilityName |-> Str("Chatter")]), arrays)])
    [] shape = "filteredTwice" ->
         Obj([locationX |-> Str("50"),
              connector |-> Connector(NameTable[1]),
              filterLogic |-> Str("and"),
              filters |-> Arr(<<Filter("Name"), Filter("Type")>>),
              scheduledPaths |-> Single(ScheduledPath(NameTable[NumNames]), arrays),
              capabilityTypes |->
                Single(Obj([capabilityName |-> Str("Chatter")]), arrays)])

Plans ==
  [nodes : [NameIds -> NodeShapes \cup {"none"}],
   start : StartShapes,
   arrays : BOOLEAN]

\* the nodes of one kind that a plan lays out, from the i-th name on
RECURSIVE PlanNodes(_, _, _)
PlanNodes(plan, kind, i) ==
  IF i > NumNames THEN <<>>
  ELSE (IF plan.nodes[i] # "none" /\ ShapeKind(plan.nodes[i]) = kind
        THEN <<ShapeNode(plan.nodes[i], i)>>
        ELSE <<>>)
       \o PlanNodes(plan, kind, i + 1)

\* the keys of the <Flow> element that a plan fills
PlanKeys(plan) ==
  {"label"}
  \cup (IF plan.start # "none" THEN {"start"} ELSE {})
  \cup {ShapeKind(plan.nodes[i]) : i \in {j \in NameIds : plan.nodes[j] # "none"}}

\* a document that is there: well-formed with its tree, or malformed
Document(plan) ==
  [present |-> TRUE, ok |-> TRUE,
   Flow |-> Obj([key \in PlanKeys(plan) |->
                   CASE key = "label" -> Str("Flow")
                     [] key = "start" -> StartNode(plan.start, plan.arrays)
                     [] OTHER ->
                          LET nodes == PlanNodes(plan, key, 1)
                          IN  IF Len(nodes) = 1
                              THEN Single(nodes[1], plan.arrays)
                              ELSE Arr(nodes)])]

Malformed == [present |-> TRUE, ok |-> FALSE, Flow |-> Undefined]

\* no document: the file has no old version
NoDocument == [present |-> FALSE, ok |-> FALSE, Flow |-> Undefined]

\* the plan with every node renamed to the next name
Renamed(plan) ==
  [plan EXCEPT !.nodes = [i \in NameIds |->
                            plan.nodes[((i + NumNames - 2) % NumNames) + 1]]]

\* The plans of the old version of a document laid out by a plan: the same
\* plan, the plan with one node added, removed or reshaped, with another
\* Start, with all nodes renamed, or written with explicit arrays.
OldVersions(plan) ==
  {[plan EXCEPT !.nodes[i] = shape] :
     i \in NameIds, shape \in NodeShapes \cup {"none"}}
  \cup {[plan EXCEPT !.start = shape] : shape \in StartShapes}
  \cup {Renamed(plan)}
  \cup {[plan EXCEPT !.arrays = TRUE]}

(***************************************************************************)
(* The files of a run.  The file system and the git history hold, for each *)
(* file path, the old and the new version of the document, if there is     *)
(* one.                                                                    *)
(***************************************************************************)
MaxFiles == 2

\* a document with the Start of a shape and one node of a shape, named
\* NameTable[1]
OneNode(shape, start) ==
  Document([nodes |-> [i \in NameIds |-> IF i = 1 THEN shape ELSE "none"],
            start |-> start, arrays |-> FALSE])

FilePaths ==
  {"changed.flow", "added.flow", "missing.flow", "malformed.flow",
   "startless.flow", "unlabelled.flow", "wasMalformed.flow"}

\* the versions of the file at a path
FileContent(filePath) ==
  CASE filePath = "changed.flow" ->
         [old |-> OneNode("plain", "filtered"),
          new |-> OneNode("relabelled", "filtered")]
    [] filePath = "added.flow" ->
         [old |-> NoDocument, new |-> OneNode("loop", "minimal")]
    [] filePath = "missing.flow" ->
         [old |-> OneNode("plain", "minimal"), new |-> NoDocument]
    [] filePath = "malformed.flow" ->
         [old |-> NoDocument, new |-> Malformed]
    [] filePath = "startless.flow" ->
         [old |-> OneNode("plain", "minimal"), new |-> OneNode("plain", "none")]
    [] filePath = "unlabelled.flow" ->
         [old |-> OneNode("plain", "minimal"),
          new |-> OneNode("unlabelled", "minimal")]
    [] filePath = "wasMalformed.flow" ->
         [old |-> Malformed, new |-> OneNode("loop", "filtered")]

(***************************************************************************)
(* The flows handed to generateUml on their own: flows as the parser makes *)
(* them, and flows put together by hand, which may lack the Start node,    *)
(* collections and the transitions.                                        *)
(***************************************************************************)
MaxStartFields == 2

\* "unlabelled": a node without a label, which no document of Parser.process
\* on its own has
RenderShapes == {"relabelled", "lookup", "loop", "unlabelled"}

\* the optional descriptive fields of the Start node, each with a value
StartFields ==
  {"triggerType", "object", "recordTriggerType", "entryType", "filterLogic",
   "filters", "filterFormula", "schedule", "capabilityTypes", "form",
   "segment", "flowRunAsUser"}

StartFieldValue(field) ==
  CASE field = "filters" -> Arr(<<Filter("Name"), Filter("Type")>>)
    [] field = "schedule" ->
         Obj([frequency |-> Str("Daily"), startDate |-> Str("2024-01-01"),
              startTime |-> Str("08:00")])
    [] field = "capabilityTypes" ->
         Arr(<<Obj([capabilityName |-> Str("Chatter")])>>)
    [] OTHER -> Str(field)

\* a Start node with some descriptive fields and nothing else
DescribedStart(fields) == Obj([f \in fields |-> StartFieldValue(f)])

DescribedStarts ==
  {DescribedStart(fields) :
     fields \in {fs \in SUBSET StartFields : Cardinality(fs) <= MaxStartFields}}

\* a flow without nodes, as put together by hand
HandBuilt(start, processType, collections, transitions) ==
  LET flow == [label |-> Str("Flow"), processType |-> processType,
               start |-> start,
               coll |-> [kind \in Kinds |-> collections],
               nameToNode |-> NoMap]
  IN  IF transitions
      THEN [f \in DOMAIN flow \cup {"transitions"} |->
              IF f = "transitions" THEN <<>> ELSE flow[f]]
      ELSE flow

\* the flow of a document, with the collections of the kinds without nodes
\* as given, and without its transitions if so chosen
Parsed(nodes, start, collections, transitions) ==
  LET flow == parsedFlow(Document([nodes |-> nodes, start |-> start,
                                   arrays |-> FALSE]))
      with == [flow EXCEPT !.coll = [kind \in Kinds |->
                                       IF Truthy(flow.coll[kind])
                                       THEN flow.coll[kind]
                                       ELSE collections]]
  IN  IF transitions THEN with
      ELSE [f \in DOMAIN with \ {"transitions"} |-> with[f]]

RenderFlows ==
  {HandBuilt(start, processType, collections, transitions) :
     start \in DescribedStarts \cup {Undefined},
     processType \in {Undefined, Str("AutoLaunchedFlow")},
     collections \in {Undefined, Arr(<<>>)},
     transitions \in BOOLEAN}
  \cup {Parsed(nodes, start, collections, transitions) :
          nodes \in [NameIds -> RenderShapes \cup {"none"}],
          start \in {"minimal", "filtered"},
          collections \in {Undefined, Arr(<<>>)},
          transitions \in BOOLEAN}

(***************************************************************************)
(* FlowToUmlTransformer: transformToUmlDiagrams() runs the pipeline of     *)
(* Reader, Parser and DiagramGenerator on one file after the other.        *)
(***************************************************************************)
VARIABLES
  input,     \* the FlowDifference read: [old, new], the raw documents
  pc,        \* where the pipeline of the current file stands
  newFlow,   \* the ParsedFlow of the new version, once parsed
  oldFlow,   \* the ParsedFlow of the old version, once parsed
  error,     \* the error the pipeline failed with
  uml,       \* the FlowDifference of DiagramGenerator.process: [old, new]
  tool,      \* Configuration: the diagram tool
  gitDiff,   \* Configuration: whether gitDiffFromHash is set
  files,     \* filePaths
  current,   \* the index in filePaths of the file being processed
  result,    \* the Map that transformToUmlDiagrams() fills
  arguments, \* the RuntimeConfig handed to the ArgumentProcessor
  processor, \* the ArgumentProcessor: errorsEncountered, and how getConfig ended
  transformed, \* what transformToUmlDiagram settles with for each flow file
  pullRequest, \* the review comments of the pull request on GitHub
  writer     \* the UmlWriter: where writeGithubComment stands, and its locals

run == <<tool, gitDiff, files, current, result>>
\* what lies around the transformer: the arguments and the output
io == <<arguments, processor, transformed, pullRequest, writer>>
vars == <<input, pc, newFlow, oldFlow, error, uml, run, io>>

NoFlow == [parsed |-> FALSE]
IsFlow(flow) == "parsed" \notin DOMAIN flow
NoError == ParseError("none", "")
ReadError == ParseError("readError", "")
TypeError == ParseError("typeError", "")

\* a diagram that is not there (undefined), and the diagrams before
\* DiagramGenerator.process
NoDiagram == <<>>
NoDiagrams == [old |-> NoDiagram, new |-> NoDiagram]

\* without an ArgumentProcessor and without a UmlWriter: the transformer
\* and its parts on their own
NoConfig == [mode |-> Undefined]
NoProcessor == [pc |-> "none"]
NoTransformed == <<>>
NoPullRequest == [comments |-> <<>>, nextId |-> 1]
NoWriter == [pc |-> "none"]

\* Parser.process on its own, for every pair of documents
Init ==
  /\ \/ \E plan \in {p \in Plans : ~p.arrays} :
          \E old \in {NoDocument, Malformed}
                       \cup {Document(v) : v \in OldVersions(plan)} :
            input = [old |-> old, new |-> Document(plan)]
     \/ \E old \in {NoDocument, Malformed} :
          input = [old |-> old, new |-> Malformed]
  /\ pc = "parseNew"
  /\ newFlow = NoFlow
  /\ oldFlow = NoFlow
  /\ error = NoError
  /\ uml = NoDiagrams
  /\ tool = "plantuml"
  /\ gitDiff = TRUE
  /\ files = <<>>
  /\ current = 0
  /\ result = NewMap
  /\ arguments = NoConfig
  /\ transformed = NoTransformed
  /\ processor = NoProcessor
  /\ pullRequest = NoPullRequest
  /\ writer = NoWriter

\* Reader.process(input) without the try around the read of the old version:
\* a file that has no old version fails
Read_OldRequired ==
  /\ pc = "read"
  /\ LET content == FileContent(files[current])
     IN  IF content.new.present /\ (gitDiff => content.old.present)
         THEN /\ input' = [old |-> IF gitDiff THEN content.old ELSE NoDocument,
                           new |-> content.new]
              /\ pc' = "parseNew"
              /\ error' = error
         ELSE /\ input' = input
              /\ pc' = "failed"
              /\ error' = ReadError
  /\ UNCHANGED <<newFlow, oldFlow, uml, run, io>>

\* Reader.process(input) reading from the wrong file
Read_NextFile ==
  /\ pc = "read"
  /\ LET content == FileContent(files[IF current < Len(files)
                                      THEN current + 1 ELSE current])
     IN  IF content.new.present
         THEN /\ input' = [old |-> IF gitDiff THEN content.old ELSE NoDocument,
                           new |-> content.new]
              /\ pc' = "parseNew"
              /\ error' = error
         ELSE /\ input' = input
              /\ pc' = "failed"
              /\ error' = ReadError
  /\ UNCHANGED <<newFlow, oldFlow, uml, run, io>>

\* Reader.process(input): the old version only with gitDiffFromHash, and
\* undefined when there is none; a new version that cannot be read throws
Read ==
  /\ pc = "read"
  /\ LET content == FileContent(files[current])
     IN  IF content.new.present
         THEN /\ input' = [old |-> IF gitDiff THEN content.old ELSE NoDocument,
                           new |-> content.new]
              /\ pc' = "parseNew"
              /\ error' = error
         ELSE /\ input' = input
              /\ pc' = "failed"
              /\ error' = ReadError
  /\ UNCHANGED <<newFlow, oldFlow, uml, run, io>>

\* a ParsedFlow without a graph: nameToNode is undefined, and so are the
\* collections
AbsentGraph ==
  [label |-> Undefined, processType |-> Undefined, start |-> Undefined,
   coll |-> [kind \in Kinds |-> Undefined], nameToNode |-> NoMap,
   transitions |-> <<>>]

\* Parser.process calling compareFlows although there is no old version
ParseNew_AlwaysCompares ==
  /\ pc = "parseNew"
  /\ LET parsed == generateFlowDefinition(input.new)
     IN  IF parsed.ok
         THEN /\ newFlow' = IF input.old.present THEN parsed.flow
                            ELSE compareFlows(AbsentGraph, parsed.flow).new
              /\ pc' = IF input.old.present THEN "parseOld" ELSE "parsed"
              /\ error' = error
         ELSE /\ newFlow' = newFlow
              /\ pc' = "failed"
              /\ error' = parsed.error
  /\ UNCHANGED <<input, oldFlow, uml, run, io>>

\* const newFlow = await new FlowParser(input.new).generateFlowDefinition()
ParseNew ==
  /\ pc = "parseNew"
  /\ LET parsed == generateFlowDefinition(input.new)
     IN  IF parsed.ok
         THEN /\ newFlow' = parsed.flow
              /\ pc' = IF input.old.present THEN "parseOld" ELSE "parsed"
              /\ error' = error
         ELSE /\ newFlow' = newFlow
              /\ pc' = "failed"
              /\ error' = parsed.error
  /\ UNCHANGED <<input, oldFlow, uml, run, io>>

\* Parser.process whose failure does not end the pipeline: the error is
\* recorded and the next stage runs without the old flow
ParseOld_Continues ==
  /\ pc = "parseOld"
  /\ LET parsed == generateFlowDefinition(input.old)
     IN  IF parsed.ok
         THEN /\ oldFlow' = parsed.flow
              /\ pc' = "compare"
              /\ error' = error
         ELSE /\ oldFlow' = oldFlow
              /\ pc' = "parsed"
              /\ error' = parsed.error
  /\ UNCHANGED <<input, newFlow, uml, run, io>>

\* oldFlow = await new FlowParser(input.old).generateFlowDefinition()
ParseOld ==
  /\ pc = "parseOld"
  /\ LET parsed == generateFlowDefinition(input.old)
     IN  IF parsed.ok
         THEN /\ oldFlow' = parsed.flow
              /\ pc' = "compare"
              /\ error' = error
         ELSE /\ oldFlow' = oldFlow
              /\ pc' = "failed"
              /\ error' = parsed.error
  /\ UNCHANGED <<input, newFlow, uml, run, io>>

\* compareFlows(oldFlow, newFlow); return {old: oldFlow, new: newFlow}
CompareFlows ==
  /\ pc = "compare"
  /\ IF compareFlowsThrows(oldFlow, newFlow)
     THEN /\ UNCHANGED <<oldFlow, newFlow>>
          /\ pc' = "failed"
          /\ error' = TypeError
     ELSE /\ LET compared == compareFlows(oldFlow, newFlow)
             IN  /\ oldFlow' = compared.old
                 /\ newFlow' = compared.new
          /\ pc' = "parsed"
          /\ error' = error
  /\ UNCHANGED <<input, uml, run, io>>

Next == ParseNew \/ ParseOld \/ CompareFlows

Spec == Init /\ [][Next]_vars

\* DiagramGenerator.process(input) rendering the flows as they were parsed,
\* before the comparison
Render_Uncompared ==
  /\ pc = "parsed"
  /\ LET old == IF IsFlow(oldFlow)
                THEN generateDiagram(tool, generateFlowDefinition(input.old).flow)
                ELSE [ok |-> TRUE, uml |-> NoDiagram]
         new == generateDiagram(tool, generateFlowDefinition(input.new).flow)
     IN  IF old.ok /\ new.ok
         THEN /\ uml' = [old |-> old.uml, new |-> new.uml]
              /\ pc' = "rendered"
              /\ error' = error
         ELSE /\ uml' = uml
              /\ pc' = "failed"
              /\ error' = TypeError
  /\ UNCHANGED <<input, newFlow, oldFlow, run, io>>

\* DiagramGenerator.process(input): the diagram of the old flow if there is
\* one, then the diagram of the new flow
Render ==
  /\ pc = "parsed"
  /\ LET old == IF IsFlow(oldFlow)
                THEN generateDiagram(tool, oldFlow)
                ELSE [ok |-> TRUE, uml |-> NoDiagram]
         new == generateDiagram(tool, newFlow)
     IN  IF old.ok /\ new.ok
         THEN /\ uml' = [old |-> old.uml, new |-> new.uml]
              /\ pc' = "rendered"
              /\ error' = error
         ELSE /\ uml' = uml
              /\ pc' = "failed"
              /\ error' = TypeError
  /\ UNCHANGED <<input, newFlow, oldFlow, run, io>>

\* the next iteration of the loop over filePaths, or return result
NextFile(results) ==
  /\ result' = results
  /\ current' = current + 1
  /\ pc' = IF current < Len(files) THEN "read" ELSE "returned"
  /\ input' = [old |-> NoDocument, new |-> NoDocument]
  /\ newFlow' = NoFlow
  /\ oldFlow' = NoFlow
  /\ error' = NoError
  /\ uml' = NoDiagrams
  /\ UNCHANGED <<tool, gitDiff, files, io>>

\* the catch of transformToUmlDiagrams() storing what there is
CatchError_Stores ==
  /\ pc = "failed"
  /\ NextFile(MapSet(result, files[current], uml))

\* resolve(result); result.set(filePath, await ...)
SetResult ==
  /\ pc = "rendered"
  /\ NextFile(MapSet(result, files[current], uml))

\* reject(error); catch (error) { console.error(...) }
CatchError ==
  /\ pc = "failed"
  /\ NextFile(result)

\* transformToUmlDiagrams() for every list of file paths
BatchInit ==
  /\ files \in UNION {[1..n -> FilePaths] : n \in 0..MaxFiles}
  /\ gitDiff \in BOOLEAN
  /\ tool \in Tools
  /\ current = 1
  /\ result = NewMap
  /\ pc = IF files = <<>> THEN "returned" ELSE "read"
  /\ input = [old |-> NoDocument, new |-> NoDocument]
  /\ newFlow = NoFlow
  /\ oldFlow = NoFlow
  /\ error = NoError
  /\ uml = NoDiagrams
  /\ arguments = NoConfig
  /\ transformed = NoTransformed
  /\ processor = NoProcessor
  /\ pullRequest = NoPullRequest
  /\ writer = NoWriter

BatchNext ==
  Read \/ ParseNew \/ ParseOld \/ CompareFlows \/ Render \/ SetResult
  \/ CatchError

BatchSpec == BatchInit /\ [][BatchNext]_vars

\* a parsed flow whose nameToNode is not set
Graphless(flow) == [flow EXCEPT !.nameToNode = NoMap]

\* the flows handed to compareFlows: the parsed flows of the documents with
\* a plain Start, each also without its graph, and a flow that has nothing
ComparedFlows ==
  LET parsed == {generateFlowDefinition(Document(plan)).flow :
                   plan \in {p \in Plans :
                               /\ ~p.arrays
                               /\ p.start = "minimal"
                               /\ generateFlowDefinition(Document(p)).ok}}
  IN  parsed \cup {Graphless(flow) : flow \in parsed} \cup {AbsentGraph}

\* compareFlows() for every pair of flows, with and without a graph
CompareInit ==
  /\ oldFlow \in ComparedFlows
  /\ newFlow \in ComparedFlows
  /\ pc = "compare"
  /\ input = [old |-> NoDocument, new |-> NoDocument]
  /\ error = NoError
  /\ uml = NoDiagrams
  /\ tool = "plantuml"
  /\ gitDiff = TRUE
  /\ files = <<>>
  /\ current = 0
  /\ result = NewMap
  /\ arguments = NoConfig
  /\ transformed = NoTransformed
  /\ processor = NoProcessor
  /\ pullRequest = NoPullRequest
  /\ writer = NoWriter

CompareNext == CompareFlows

CompareSpec == CompareInit /\ [][CompareNext]_vars

\* generateDiagram() for every flow and every diagram tool
RenderInit ==
  /\ newFlow \in RenderFlows
  /\ tool \in Tools
  /\ oldFlow = NoFlow
  /\ pc = "parsed"
  /\ input = [old |-> NoDocument, new |-> NoDocument]
  /\ error = NoError
  /\ uml = NoDiagrams
  /\ gitDiff = FALSE
  /\ files = <<>>
  /\ current = 0
  /\ result = NewMap
  /\ arguments = NoConfig
  /\ transformed = NoTransformed
  /\ processor = NoProcessor
  /\ pullRequest = NoPullRequest
  /\ writer = NoWriter

RenderNext == Render

RenderSpec == RenderInit /\ [][RenderNext]_vars

(***************************************************************************)
(* Properties of the comparator.                                           *)
(***************************************************************************)
\* the references to all node objects of a flow: Start and the collections
FlowRefs(flow) ==
  {StartRef}
  \cup UNION {{NodeRef(kind, i) : i \in 0..(Length(flow.coll[kind]) - 1)} :
                kind \in {k \in Kinds : Truthy(flow.coll[k])}}

\* the name of the node a reference points to
RefName(flow, ref) ==
  IF ref.kind = "start" THEN START_NODE_NAME
  ELSE Get(NodeOf(flow, ref), "name").s

\* the keys of flow.nameToNode
KeysOf(flow) == DOMAIN flow.nameToNode.val

\* node.diffStatus of the node a reference points to, Undefined if it has none
DiffStatusOf(flow, ref) == Get(NodeOf(flow, ref), "diffStatus")

\* the node that flow.nameToNode holds under a name
NamedNode(flow, name) == NodeOf(flow, flow.nameToNode.val[name])

\* both versions have been parsed and compareFlows has returned
Compared == pc = "parsed" /\ input.old.present

\* C1: after compareFlows on two freshly parsed flows, every node of the old
\* flow whose name is a key of old.nameToNode and not of new.nameToNode has
\* diffStatus DELETED.
C1_DeletedMarked ==
  Compared =>
    \A ref \in FlowRefs(oldFlow) :
      RefName(oldFlow, ref) \in KeysOf(oldFlow) \ KeysOf(newFlow)
        => DiffStatusOf(oldFlow, ref) = Str(DELETED)

C1_Witness ==
  /\ Compared
  /\ \E ref \in FlowRefs(oldFlow) :
       /\ RefName(oldFlow, ref) \in KeysOf(oldFlow) \ KeysOf(newFlow)
       /\ DiffStatusOf(oldFlow, ref) = Str(DELETED)

\* C2: after compareFlows on two freshly parsed flows, every node of the new
\* flow whose name is a key of new.nameToNode and not of old.nameToNode has
\* diffStatus ADDED.
C2_AddedMarked ==
  Compared =>
    \A ref \in FlowRefs(newFlow) :
      RefName(newFlow, ref) \in KeysOf(newFlow) \ KeysOf(oldFlow)
        => DiffStatusOf(newFlow, ref) = Str(ADDED)

C2_Witness ==
  /\ Compared
  /\ \E ref \in FlowRefs(newFlow) :
       /\ RefName(newFlow, ref) \in KeysOf(newFlow) \ KeysOf(oldFlow)
       /\ DiffStatusOf(newFlow, ref) = Str(ADDED)

\* C3: compareFlows leaves, for every name that is a key of both nameToNode
\* maps and whose old and new nodes differ in structure, both the old node and
\* the new node with diffStatus MODIFIED.
C3_ModifiedOnBothSides ==
  [][pc = "compare" =>
       \A name \in KeysOf(oldFlow) \cap KeysOf(newFlow) :
         NamedNode(oldFlow, name) # NamedNode(newFlow, name)
           => /\ Get(NamedNode(oldFlow', name), "diffStatus") = Str(MODIFIED)
              /\ Get(NamedNode(newFlow', name), "diffStatus") = Str(MODIFIED)]_vars

C3_Witness ==
  /\ Compared
  /\ \E name \in (KeysOf(oldFlow) \cap KeysOf(newFlow)) \ {START_NODE_NAME} :
       /\ Get(NamedNode(oldFlow, name), "diffStatus") = Str(MODIFIED)
       /\ Get(NamedNode(newFlow, name), "diffStatus") = Str(MODIFIED)

\* C4: compareFlows on two freshly parsed flows leaves, for every name that is
\* a key of both nameToNode maps and whose old and new nodes have identical
\* structure, neither the old node nor the new node with a diffStatus.
C4_UnchangedUnmarked ==
  [][pc = "compare" =>
       \A name \in KeysOf(oldFlow) \cap KeysOf(newFlow) :
         NamedNode(oldFlow, name) = NamedNode(newFlow, name)
           => /\ Get(NamedNode(oldFlow', name), "diffStatus") = Undefined
              /\ Get(NamedNode(newFlow', name), "diffStatus") = Undefined]_vars

\* an unchanged node stays unmarked next to a node that was marked
C4_Witness ==
  /\ Compared
  /\ \E name \in (KeysOf(oldFlow) \cap KeysOf(newFlow)) \ {START_NODE_NAME} :
       /\ NamedNode(oldFlow, name) = NamedNode(newFlow, name)
       /\ Get(NamedNode(newFlow, name), "diffStatus") = Undefined
  /\ \E ref \in FlowRefs(newFlow) : DiffStatusOf(newFlow, ref) # Undefined

\* C5: areEqual of two nodes is true exactly when the nodes have identical
\* content (the same fields with the same values at every depth), and the
\* answer is the same whether or not the two nodes are one object.
C5_AreEqualIsStructural ==
  (oldFlow # NoFlow /\ newFlow # NoFlow) =>
    \A oldRef \in FlowRefs(oldFlow), newRef \in FlowRefs(newFlow) :
      LET node1 == NodeOf(oldFlow, oldRef)
          node2 == NodeOf(newFlow, newRef)
      IN  /\ areEqual(node1, node2, FALSE) = (node1 = node2)
          /\ areEqual(node2, node1, FALSE) = (node1 = node2)
          /\ areEqual(node1, node1, TRUE)
          /\ areEqual(node1, node1, FALSE)

\* compareFlows has compared two nodes with the same keys that differ only
\* inside a nested record, and two nodes that do not differ
C5_Witness ==
  /\ Compared
  /\ \E name \in KeysOf(oldFlow) \cap KeysOf(newFlow) :
       LET node1 == NamedNode(oldFlow, name)
           node2 == NamedNode(newFlow, name)
       IN  /\ Keys(node1) = Keys(node2)
           /\ \A key \in Keys(node1) :
                TypeOf(node1.kv[key]) # "object" => node1.kv[key] = node2.kv[key]
           /\ \E key \in Keys(node1) :
                /\ TypeOf(node1.kv[key]) = "object"
                /\ node1.kv[key] # node2.kv[key]
  /\ \E name \in KeysOf(oldFlow) \cap KeysOf(newFlow) :
       NamedNode(oldFlow, name) = NamedNode(newFlow, name)

\* C6: comparing a flow with a structurally identical, independently parsed
\* copy of itself leaves every node of both flows without a diffStatus.
C6_SelfComparisonMarksNothing ==
  [][(pc = "compare" /\ oldFlow = newFlow) =>
       /\ \A ref \in FlowRefs(oldFlow') : DiffStatusOf(oldFlow', ref) = Undefined
       /\ \A ref \in FlowRefs(newFlow') : DiffStatusOf(newFlow', ref) = Undefined]_vars

C6_Witness ==
  /\ Compared
  /\ oldFlow = newFlow
  /\ Cardinality(KeysOf(newFlow)) > 2
  /\ \A ref \in FlowRefs(newFlow) : DiffStatusOf(newFlow, ref) = Undefined

(***************************************************************************)
(* Properties of the parser.                                               *)
(***************************************************************************)
\* generateFlowDefinition has been called on the new, on the old document
NewParseDone == pc \notin {"read", "parseNew"}
OldParseDone == input.old.present /\ newFlow # NoFlow /\ pc \notin {"parseNew", "parseOld"}

\* a well-formed document without a Start element
LacksStart(doc) == doc.present /\ doc.ok /\ "start" \notin Keys(doc.Flow)

\* the occurrences of an element of a tree: the elements of an array, or the
\* one bare value
Occurrences(v) == IF IsArray(v) THEN {v.kv[k] : k \in Keys(v)} ELSE {v}

\* the names the nodes of a document declare (the Start node goes by the
\* start sentinel)
DeclaredNames(doc) ==
  (IF "start" \in Keys(doc.Flow) THEN {START_NODE_NAME} ELSE {})
  \cup UNION {{Get(node, "name").s : node \in Occurrences(doc.Flow.kv[kind])} :
                kind \in Keys(doc.Flow) \cap Kinds}

\* the names that the connectors anywhere in a tree target
RECURSIVE ConnectorTargets(_)
ConnectorTargets(v) ==
  IF TypeOf(v) # "object" THEN {}
  ELSE (IF "targetReference" \in Keys(v) THEN {v.kv["targetReference"].s} ELSE {})
       \cup UNION {ConnectorTargets(v.kv[k]) : k \in Keys(v)}

\* the names that connectors of a document target and no node declares
UndeclaredTargets(doc) ==
  IF doc.present /\ doc.ok
  THEN ConnectorTargets(doc.Flow) \ DeclaredNames(doc)
  ELSE {}

\* C7: parsing a document that has no Start node fails with the missing-start
\* error and returns no ParsedFlow.
C7_MissingStartFails ==
  /\ (NewParseDone /\ LacksStart(input.new))
       => pc = "failed" /\ error = FlowStartNotDefined /\ newFlow = NoFlow
  /\ (OldParseDone /\ LacksStart(input.old))
       => pc = "failed" /\ error = FlowStartNotDefined /\ oldFlow = NoFlow

\* a document that lacks the Start node and has nodes has been rejected
C7_Witness ==
  /\ pc = "failed"
  /\ LacksStart(input.new)
  /\ DeclaredNames(input.new) # {}
  /\ error = FlowStartNotDefined

C8_RejectedForMissingStart ==
  /\ pc = "failed"
  /\ LacksStart(input.new)
  /\ UndeclaredTargets(input.new) # {}
  /\ error = FlowStartNotDefined
C8_TwoUndeclaredNames ==
  /\ pc = "failed"
  /\ ~LacksStart(input.new)
  /\ \E n1, n2 \in UndeclaredTargets(input.new) :
       n1 # n2 /\ error = CouldNotFindConnectedNode(n1)

ParsedFlows == {newFlow, oldFlow} \ {NoFlow}

\* C9: in every ParsedFlow the parser returns, each transition's `to` is a
\* key of nameToNode and each transition's `from` is the start sentinel or a
\* key of nameToNode.
C9_TransitionsResolve ==
  \A flow \in ParsedFlows :
    \A i \in 1..Len(flow.transitions) :
      /\ flow.transitions[i].to \in KeysOf(flow)
      /\ \/ flow.transitions[i].from = START_NODE_NAME
         \/ flow.transitions[i].from \in KeysOf(flow)

\* a flow with a transition from the Start node and transitions between
\* nodes, one of them a fault transition, has been parsed
C9_Witness ==
  /\ newFlow # NoFlow
  /\ \E i, j, k \in 1..Len(newFlow.transitions) :
       /\ newFlow.transitions[i].from = START_NODE_NAME
       /\ newFlow.transitions[j].from \in Names
       /\ newFlow.transitions[j].to # newFlow.transitions[j].from
       /\ newFlow.transitions[k].fault

\* a tree with every single occurrence of a node kind, and of a collection
\* field of the Start node, written as an explicit array of one
WithExplicitArrays(flowTree) ==
  [flowTree EXCEPT !.kv =
     [key \in Keys(flowTree) |->
        LET v == flowTree.kv[key]
        IN  IF key \in Kinds
            THEN Arr(<<v>>)
            ELSE IF key = "start"
            THEN [v EXCEPT !.kv =
                    [f \in Keys(v) |->
                       IF f \in StartArrayFields /\ ~IsArray(v.kv[f])
                       THEN Arr(<<v.kv[f]>>)
                       ELSE v.kv[f]]]
            ELSE v]]

\* a non-empty array of objects that are not arrays themselves
IsCollection(v) ==
  /\ IsArray(v)
  /\ Length(v) >= 1
  /\ \A k \in Keys(v) : v.kv[k].t = "object"

\* C10: a collection of a parsed flow (the nodes of a kind; the filters,
\* scheduled paths and capability types of the Start node) is never a bare
\* single object but absent or an array, and a document with single
\* occurrences parses to the same flow as the document that gives every such
\* occurrence as an explicit array of one.
C10_SingleOccurrencesAreArrays ==
  /\ \A flow \in ParsedFlows :
       /\ \A kind \in Kinds :
            flow.coll[kind] = Undefined \/ IsCollection(flow.coll[kind])
       /\ \A field \in StartArrayFields :
            Get(flow.start, field) = Undefined
              \/ IsCollection(Get(flow.start, field))
  /\ (/\ pc = "compare"
      /\ input.old.Flow = WithExplicitArrays(input.new.Flow))
       => oldFlow = newFlow

\* a document with a single node of a kind and a single Start filter, and the
\* same document written with explicit arrays of one, have both been parsed
C10_Witness ==
  /\ pc = "compare"
  /\ input.old.Flow = WithExplicitArrays(input.new.Flow)
  /\ input.old.Flow # input.new.Flow
  /\ \E kind \in Keys(input.new.Flow) \cap Kinds :
       /\ ~IsArray(input.new.Flow.kv[kind])
       /\ newFlow.coll[kind] = Arr(<<input.new.Flow.kv[kind]>>)
  /\ ~IsArray(Get(input.new.Flow.kv["start"], "filters"))
  /\ Get(newFlow.start, "filters")
       = Arr(<<Get(input.new.Flow.kv["start"], "filters")>>)
  /\ oldFlow = newFlow

\* the place of a kind in the canonical order
KindIndex(kind) == CHOOSE k \in 1..Len(KindOrder) : KindOrder[k] = kind

\* The place of the source of a transition in the canonical visiting order:
\* the Start node, then kind by kind, within a kind by place in the collection.
SourceBefore(flow, from1, from2) ==
  LET r1 == flow.nameToNode.val[from1]
      r2 == flow.nameToNode.val[from2]
  IN  \/ r1.kind = "start"
      \/ /\ r2.kind # "start"
         /\ \/ KindIndex(r1.kind) < KindIndex(r2.kind)
            \/ r1.kind = r2.kind /\ r1.idx <= r2.idx

\* the transitions of a parsed flow are in the canonical order
InCanonicalOrder(flow) ==
  \A i, j \in 1..Len(flow.transitions) :
    i < j =>
      LET t1 == flow.transitions[i]
          t2 == flow.transitions[j]
      IN  /\ SourceBefore(flow, t1.from, t2.from)
          /\ (t1.from = t2.from /\ t1.from # START_NODE_NAME)
               => (t1.fault => t2.fault)
          /\ (t1.from = START_NODE_NAME /\ t2.from = START_NODE_NAME)
               => (t2.label = Undefined => t1.label = Undefined)

FaultEdges(flow, name) ==
  {i \in 1..Len(flow.transitions) :
     flow.transitions[i].from = name /\ flow.transitions[i].fault}

\* C12: for every node of a parsed flow that declares a fault connector
\* there is exactly one transition from that node with fault = TRUE, it goes
\* to the target of the fault connector and is labelled "Fault"; a node
\* without a fault connector, and the Start node, have no fault transition.
C12_FaultConnectorEdges ==
  \A flow \in ParsedFlows :
    \A ref \in FlowRefs(flow) :
      LET node == NodeOf(flow, ref)
          edges == FaultEdges(flow, RefName(flow, ref))
      IN  IF ref.kind # "start" /\ "faultConnector" \in Keys(node)
          THEN /\ Cardinality(edges) = 1
               /\ \A i \in edges :
                    /\ flow.transitions[i].to
                         = Get(node.kv["faultConnector"], "targetReference").s
                    /\ flow.transitions[i].label = Str("Fault")
          ELSE edges = {}

\* a flow has been parsed with a node that has both a connector and a fault
\* connector, and with a node that has only a connector
C12_Witness ==
  /\ newFlow # NoFlow
  /\ \E i, j, k \in 1..Len(newFlow.transitions) :
       /\ newFlow.transitions[i].fault
       /\ newFlow.transitions[i].label = Str("Fault")
       /\ newFlow.transitions[j].from = newFlow.transitions[i].from
       /\ ~newFlow.transitions[j].fault
       /\ newFlow.transitions[k].from \notin
            {START_NODE_NAME, newFlow.transitions[i].from}
       /\ ~newFlow.transitions[k].fault


(***************************************************************************)
(* The generator.                                                          *)
(***************************************************************************)
Rendered == pc = "rendered"

\* the calls that generateUml() makes for the new flow with the tool of the
\* run, and what a call is about
NewCalls == umlCalls(tool, newFlow)
IsNodeCall(call) == call.primitive = "toUmlString"
IsStartCall(call) == IsNodeCall(call) /\ call.argument.id = START_NODE_NAME
KindOfType(type) == CHOOSE kind \in Kinds : KindStyle(kind)[1] = type
CallsOfKind(calls, kind) ==
  SelectSeq(calls, LAMBDA call : /\ IsNodeCall(call)
                                 /\ ~IsStartCall(call)
                                 /\ KindOfType(call.argument.type) = kind)
TransitionCalls(calls) ==
  SelectSeq(calls, LAMBDA call : call.primitive = "getTransition")

\* the place of the section of a call: header, Start node, the kinds in the
\* fixed kind order, transitions, footer
SectionRank(call) ==
  CASE call.primitive = "getHeader" -> 0
    [] IsStartCall(call) -> 1
    [] IsNodeCall(call) -> 1 + KindIndex(KindOfType(call.argument.type))
    [] call.primitive = "getTransition" -> 2 + Len(KindOrder)
    [] call.primitive = "getFooter" -> 3 + Len(KindOrder)

\* the names of the nodes of a collection, in collection order
CollectionNames(elements) ==
  IF IsArray(elements)
  THEN [i \in 1..Length(elements) |-> Get(At(elements, i - 1), "name").s]
  ELSE <<>>

\* the texts that the primitives return for some calls, one after the other,
\* without those that are the empty string
Encoded(calls) ==
  JoinEOL(SelectSeq([i \in 1..Len(calls) |-> primitive(tool, calls[i])],
                    LAMBDA text : text # EmptyText))

\* C13: generateUml emits its sections in one fixed order for every flow:
\* the header first, then the Start node, then the nodes of each kind in the
\* fixed kind order (within a kind in collection order), then every
\* transition in sequence order, then the footer last; the diagram is the
\* text of these calls in this order.
C13_SectionsInFixedOrder ==
  /\ NewCalls[1] = Call("getHeader", newFlow.label)
  /\ NewCalls[Len(NewCalls)] = Call("getFooter", <<>>)
  /\ \A i, j \in 1..Len(NewCalls) :
       i < j =>
         /\ SectionRank(NewCalls[i]) <= SectionRank(NewCalls[j])
         /\ SectionRank(NewCalls[i]) = SectionRank(NewCalls[j])
              => SectionRank(NewCalls[i]) \in 2..(2 + Len(KindOrder))
  /\ \A kind \in Kinds :
       [i \in 1..Len(CallsOfKind(NewCalls, kind)) |->
          CallsOfKind(NewCalls, kind)[i].argument.id]
         = CollectionNames(newFlow.coll[kind])
  /\ [i \in 1..Len(TransitionCalls(NewCalls)) |->
        TransitionCalls(NewCalls)[i].argument]
       = TransitionsOf(newFlow)
  /\ Truthy(newFlow.start) <=> \E i \in 1..Len(NewCalls) : IsStartCall(NewCalls[i])
  /\ Rendered => uml.new = Encoded(NewCalls)

\* a rendered flow with a Start node, an assignment named after the record
\* lookup that follows it in the diagram, and transitions
C13_Witness ==
  /\ Rendered
  /\ Truthy(newFlow.start)
  /\ CollectionNames(newFlow.coll["assignments"]) = <<NameTable[2]>>
  /\ CollectionNames(newFlow.coll["recordLookups"]) = <<NameTable[1]>>
  /\ Len(TransitionsOf(newFlow)) >= 3

\* the nodes of a flow that have no label
UnlabelledNodes(flow) ==
  {<<kind, i>> \in Kinds \X (0..NumNames) :
     /\ IsArray(flow.coll[kind])
     /\ i < Length(flow.coll[kind])
     /\ Get(At(flow.coll[kind], i), "label").t # "string"}

\* the lines of the Start node, of the nodes and of the transitions that a
\* flow has, after the header: no line for what is not there
PresentLines(flow) ==
  getHeader(tool, flow.label)
  \o (IF Truthy(flow.start)
      THEN toUmlString(tool, flowStartNode(flow))
      ELSE <<>>)
  \o Flatten([k \in 1..Len(KindOrder) |->
                LET elements == flow.coll[KindOrder[k]]
                IN  IF IsArray(elements)
                    THEN Flatten([i \in 1..Length(elements) |->
                                    toUmlString(tool,
                                      flowNode(KindOrder[k],
                                               At(elements, i - 1)))])
                    ELSE <<>>])
  \o (IF "transitions" \in DOMAIN flow
      THEN Flatten([i \in 1..Len(flow.transitions) |->
                      getTransition(tool, flow.transitions[i])])
      ELSE <<>>)

\* C14: a node kind whose collection is empty or absent, an absent Start
\* node, and an empty or absent transitions sequence each contribute nothing
\* to the generated diagram: the diagram has the lines of the header and of
\* what is there and no other line, and generation fails for none of them
\* (it fails only for a node without a label).
C14_AbsentPartsContributeNothing ==
  /\ Rendered => uml.new = PresentLines(newFlow)
  /\ pc = "failed" => UnlabelledNodes(newFlow) # {}

\* a rendered flow without a Start node and without transitions, whose
\* collections are all empty
C14_Witness ==
  /\ Rendered
  /\ ~Truthy(newFlow.start)
  /\ "transitions" \notin DOMAIN newFlow
  /\ \A kind \in Kinds : newFlow.coll[kind] = Arr(<<>>)
  /\ uml.new = getHeader(tool, newFlow.label)

\* The optional descriptive items of the Start node and what the line of
\* each begins with.  Filter logic and filter list are one item, which is
\* populated when both are: a filter logic and at least one filter.
StartItems ==
  [processType |-> "Process Type:", triggerType |-> "Trigger Type:",
   object |-> "Object:", recordTriggerType |-> "Record Trigger:",
   entryType |-> "Entry Type:", filters |-> "Filter Logic:",
   filterFormula |-> "Filter Formula:", schedule |-> "Schedule:",
   capabilityTypes |-> "Capability", form |-> "Form:", segment |-> "Segment:",
   flowRunAsUser |-> "Run As:"]

NonEmptyArray(v) == IsArray(v) /\ Length(v) > 0

PopulatedItems(flow) ==
  {item \in DOMAIN StartItems :
     CASE item = "processType" -> Truthy(flow.processType)
       [] item = "filters" ->
            /\ Truthy(Get(flow.start, "filterLogic"))
            /\ NonEmptyArray(Get(flow.start, "filters"))
       [] item = "capabilityTypes" ->
            NonEmptyArray(Get(flow.start, "capabilityTypes"))
       [] OTHER -> Truthy(Get(flow.start, item))}

\* the number of lines that describe one populated item
ItemLines(flow, item) ==
  CASE item = "filters" -> 1 + Length(Get(flow.start, "filters"))
    [] item = "capabilityTypes" -> Length(Get(flow.start, "capabilityTypes"))
    [] OTHER -> 1

\* the number of lines that describe some populated items
RECURSIVE ItemsLines(_, _)
ItemsLines(flow, items) ==
  IF items = {} THEN 0
  ELSE LET item == CHOOSE x \in items : TRUE
       IN  ItemLines(flow, item) + ItemsLines(flow, items \ {item})

\* the entry criteria block handed to toUmlString with the Start node
EntryCriteriaBlock == NewCalls[2].argument.innerNodes.nodes[1].content

\* the pieces of all lines of a text
PiecesOf(text) == UNION {{text[i][j] : j \in 1..Len(text[i])} : i \in 1..Len(text)}

WellFormed(flow) ==
  /\ \A kind \in Kinds :
       \/ flow.coll[kind].t = "undefined"
       \/ /\ IsArray(flow.coll[kind])
          /\ \A i \in 0..(Length(flow.coll[kind]) - 1) :
               /\ Get(At(flow.coll[kind], i), "name").t = "string"
               /\ Get(At(flow.coll[kind], i), "label").t = "string"
  /\ \A field \in StartArrayFields :
       Get(flow.start, field).t \in {"undefined", "array"}

\* the number of nodes of a flow, the Start node included
RECURSIVE NodeCount(_, _)
NodeCount(flow, k) ==
  IF k > Len(KindOrder) THEN IF Truthy(flow.start) THEN 1 ELSE 0
  ELSE Len(CollectionNames(flow.coll[KindOrder[k]])) + NodeCount(flow, k + 1)

\* C16: generateUml never raises for a well-formed ParsedFlow, including a
\* flow with only a Start node and empty collections and a flow whose
\* transitions form a cycle; it hands each node and each transition to the
\* rendering primitives once, between the header and the footer, and ends.
C16_RenderingIsTotal ==
  WellFormed(newFlow) =>
    /\ ~generateUmlThrows(tool, newFlow)
    /\ pc # "failed"
    /\ Len(SelectSeq(NewCalls, IsNodeCall)) = NodeCount(newFlow, 1)
    /\ \A kind \in Kinds :
         \A i \in 1..Len(CollectionNames(newFlow.coll[kind])) :
           Cardinality({c \in 1..Len(NewCalls) :
                          /\ IsNodeCall(NewCalls[c])
                          /\ NewCalls[c].argument.id
                               = CollectionNames(newFlow.coll[kind])[i]}) = 1
    /\ Len(TransitionCalls(NewCalls)) = Len(TransitionsOf(newFlow))
    /\ Len(NewCalls) = 2 + NodeCount(newFlow, 1) + Len(TransitionsOf(newFlow))

\* a rendered flow with a Loop node whose "for each" transition leads to
\* the node itself
C16_Witness ==
  /\ Rendered
  /\ WellFormed(newFlow)
  /\ \E i \in 1..Len(TransitionsOf(newFlow)) :
       /\ newFlow.transitions[i].from = newFlow.transitions[i].to
       /\ newFlow.transitions[i].label = Str("for each")
       /\ newFlow.transitions[i].from
            \in {CollectionNames(newFlow.coll["loops"])[n] :
                   n \in 1..Len(CollectionNames(newFlow.coll["loops"]))}

\* what a tool is handed by generateUml(): the DiagramNode values and the
\* transitions, in the order of the calls
HandedTo(aTool, flow) ==
  SelectSeq(umlCalls(aTool, flow),
            LAMBDA call : call.primitive \in {"toUmlString", "getTransition"})

VersionsRead(filePath) ==
  [old |-> IF gitDiff THEN FileContent(filePath).old ELSE NoDocument,
   new |-> FileContent(filePath).new]

\* the flows of a file whose versions parse, compared if there are two
FlowsOf(filePath) ==
  LET read == VersionsRead(filePath)
      new == generateFlowDefinition(read.new).flow
  IN  IF read.old.present
      THEN compareFlows(generateFlowDefinition(read.old).flow, new)
      ELSE [old |-> NoFlow, new |-> new]

\* read, parse and render of a file all succeed
Succeeds(filePath) ==
  LET read == VersionsRead(filePath)
  IN  /\ read.new.present
      /\ generateFlowDefinition(read.new).ok
      /\ read.old.present => generateFlowDefinition(read.old).ok
      /\ generateDiagram(tool, FlowsOf(filePath).new).ok
      /\ read.old.present => generateDiagram(tool, FlowsOf(filePath).old).ok

\* the files whose processing has ended
Processed == {files[i] : i \in {j \in 1..Len(files) : j < current}}

\* C18: in a batch a file whose processing fails is absent from the result
\* map and every other file is still processed: the result has an entry for
\* exactly those files processed so far whose read, parse and render all
\* succeeded; a failed pipeline leaves the run at a file of the batch, where
\* the failure is caught, and transformToUmlDiagrams returns only after the
\* last file.
C18_FailedFilesAreLeftOut ==
  /\ DOMAIN result.val = {filePath \in Processed : Succeeds(filePath)}
  /\ pc \in {"read", "parseNew", "parseOld", "compare", "parsed", "rendered",
            "failed", "returned"}
  /\ pc # "returned" <=> current \in 1..Len(files)
  /\ pc = "returned" <=> current = Len(files) + 1

\* a batch that has returned, whose first file failed and whose second file
\* is in the result
C18_Witness ==
  /\ pc = "returned"
  /\ Len(files) = 2
  /\ ~Succeeds(files[1])
  /\ Succeeds(files[2])
  /\ DOMAIN result.val = {files[2]}

\* the steps of the pipeline of one file, and its two ends
InPipeline == pc \in {"read", "parseNew", "parseOld", "compare", "parsed"}
PipelineEnded == pc \in {"rendered", "failed"}

\* C19: the files of a batch are processed strictly one at a time in input
\* order: every step of the pipeline is a step of the current file, which is
\* read from its own path; the run moves on, to the next file in the list,
\* only from a pipeline that has produced its result (which is then stored
\* under the path of the file) or has failed, and a file is started by
\* nothing else.
C19_OneFileAtATime ==
  [][/\ InPipeline =>
          /\ current' = current
          /\ result' = result
          /\ pc' # "read"
          /\ pc = "read" /\ pc' = "parseNew"
               => input' = VersionsRead(files[current])
          /\ pc # "read" => input' = input
     /\ PipelineEnded =>
          /\ current' = current + 1
          /\ pc' = IF current < Len(files) THEN "read" ELSE "returned"
          /\ pc = "rendered" =>
               /\ MapHas(result', files[current])
               /\ result'.val[files[current]] = uml
          /\ pc = "failed" => result' = result
     /\ files' = files]_vars

\* the second file of a batch has been read, after the first, another file,
\* has failed or is in the result
C19_Witness ==
  /\ current = 2
  /\ pc = "parseNew"
  /\ files[1] # files[2]
  /\ input = VersionsRead(files[2])
  /\ input # VersionsRead(files[1])
  /\ MapHas(result, files[1]) <=> Succeeds(files[1])

\* the diagram of a flow that renders, if there is a flow
DiagramOf(flow) ==
  IF IsFlow(flow) THEN generateUml(tool, flow) ELSE NoDiagram

\* C20: for each file the steps run in the order read, parse the new and
\* then the old version, compare, render both versions: a step is taken
\* only from the step before it (without an old version the comparison and
\* the parse of the old version are left out), and the diagrams are rendered
\* after the comparison, from the flows that carry its diffStatus values.
C20_StepsInOrder ==
  [][/\ pc' = "parseNew" => pc = "read"
     /\ pc' = "parseOld" => pc = "parseNew" /\ input.old.present
     /\ pc' = "compare" => pc = "parseOld"
     /\ pc' = "parsed" =>
          \/ pc = "compare"
          \/ pc = "parseNew" /\ ~input.old.present
     /\ pc' = "rendered" =>
          /\ pc = "parsed"
          /\ <<oldFlow, newFlow>>
               = <<FlowsOf(files[current]).old, FlowsOf(files[current]).new>>
          /\ uml' = [old |-> DiagramOf(FlowsOf(files[current]).old),
                     new |-> DiagramOf(FlowsOf(files[current]).new)]]_vars

\* both versions of a file are rendered, and both diagrams show the node
\* that the comparison marked as modified
C20_Witness ==
  /\ Rendered
  /\ tool = "plantuml"
  /\ input.old.present
  /\ \E ref \in FlowRefs(newFlow) : DiffStatusOf(newFlow, ref) = Str(MODIFIED)
  /\ PlantUmlDiffIcon(Str(MODIFIED)) \in PiecesOf(uml.new)
  /\ PlantUmlDiffIcon(Str(MODIFIED)) \in PiecesOf(uml.old)

(***************************************************************************)
(* Properties of the comparison within the pipeline.                       *)
(***************************************************************************)
\* compareFlows has not been called on the flows of the current file
Uncompared ==
  pc \in {"read", "parseNew", "parseOld", "compare"} \/ ~IsFlow(oldFlow)

\* no node of a flow has a diffStatus
Unmarked(flow) ==
  \A ref \in FlowRefs(flow) : DiffStatusOf(flow, ref) = Undefined

\* C21: no node of a parsed flow has a diffStatus unless compareFlows has
\* been called on the flow; a file without an old version is not compared:
\* there is no old flow, the old diagram is undefined, and the new diagram is
\* that of a flow none of whose nodes has a diffStatus.
C21_NoStatusWithoutComparison ==
  /\ Uncompared => \A flow \in ParsedFlows : Unmarked(flow)
  /\ (NewParseDone /\ ~input.old.present) =>
       /\ pc # "compare"
       /\ oldFlow = NoFlow
       /\ Rendered =>
            /\ uml.old = NoDiagram
            /\ Unmarked(newFlow)
            /\ uml.new = generateUml(tool, generateFlowDefinition(input.new).flow)

\* a file without an old version is rendered in a run that compares versions
C21_Witness ==
  /\ Rendered
  /\ gitDiff
  /\ ~input.old.present
  /\ uml.old = NoDiagram
  /\ Cardinality(FlowRefs(newFlow)) > 1
  /\ Unmarked(newFlow)

\* a node without its diffStatus field, and a flow without the diffStatus
\* fields of its nodes
WithoutDiffStatus(node) ==
  [node EXCEPT !.kv = [key \in DOMAIN node.kv \ {"diffStatus"} |-> node.kv[key]]]

FlowWithoutDiffStatus(flow) ==
  [flow EXCEPT
     !.start = WithoutDiffStatus(flow.start),
     !.coll = [kind \in Kinds |->
                 IF Truthy(flow.coll[kind])
                 THEN [flow.coll[kind] EXCEPT
                         !.kv = [i \in DOMAIN flow.coll[kind].kv |->
                                   WithoutDiffStatus(flow.coll[kind].kv[i])]]
                 ELSE flow.coll[kind]]]

\* C22: compareFlows changes nothing in either flow except the diffStatus
\* fields of nodes: the keys of both nameToNode maps and the nodes they refer
\* to, the collections of every kind, every other field of every node, the
\* transitions and the other fields of both flows are as before the call, so
\* no node has moved from one flow to the other.
C22_OnlyDiffStatusChanges ==
  [][pc = "compare" =>
       /\ FlowWithoutDiffStatus(oldFlow') = FlowWithoutDiffStatus(oldFlow)
       /\ FlowWithoutDiffStatus(newFlow') = FlowWithoutDiffStatus(newFlow)
       /\ oldFlow'.nameToNode = oldFlow.nameToNode
       /\ newFlow'.nameToNode = newFlow.nameToNode
       /\ oldFlow'.transitions = oldFlow.transitions
       /\ newFlow'.transitions = newFlow.transitions
       /\ \A kind \in Kinds :
            /\ Truthy(oldFlow'.coll[kind]) = Truthy(oldFlow.coll[kind])
            /\ Truthy(newFlow'.coll[kind]) = Truthy(newFlow.coll[kind])
            /\ Length(oldFlow'.coll[kind]) = Length(oldFlow.coll[kind])
            /\ Length(newFlow'.coll[kind]) = Length(newFlow.coll[kind])]_vars

\* a comparison has marked a deleted and an added node, and both flows are
\* otherwise as the parser returned them
C22_Witness ==
  /\ Compared
  /\ \E ref \in FlowRefs(oldFlow) : DiffStatusOf(oldFlow, ref) = Str(DELETED)
  /\ \E ref \in FlowRefs(newFlow) : DiffStatusOf(newFlow, ref) = Str(ADDED)
  /\ oldFlow # generateFlowDefinition(input.old).flow
  /\ FlowWithoutDiffStatus(oldFlow) = generateFlowDefinition(input.old).flow
  /\ FlowWithoutDiffStatus(newFlow) = generateFlowDefinition(input.new).flow

\* the assignments to diffStatus of the call compareFlows(oldFlow, newFlow),
\* and those among them made to one node
WritesOf(old, new) == compareFlows(old, new).writes

WritesTo(writes, which, ref) ==
  {i \in 1..Len(writes) : writes[i].flow = which /\ writes[i].ref = ref}

\* C23: one call of compareFlows assigns the diffStatus of each node at most
\* once, so that a node ends the comparison with no status or with the one
\* status assigned to it; DELETED is assigned to nodes of the old flow only
\* and ADDED to nodes of the new flow only.
C23_EachNodeMarkedAtMostOnce ==
  [][pc = "compare" =>
       LET writes == WritesOf(oldFlow, newFlow)
           after == [old |-> oldFlow', new |-> newFlow']
       IN  /\ \A which \in {"old", "new"} :
                \A ref \in FlowRefs(after[which]) :
                  LET to == WritesTo(writes, which, ref)
                  IN  /\ Cardinality(to) <= 1
                      /\ to = {} => DiffStatusOf(after[which], ref) = Undefined
                      /\ \A i \in to :
                           DiffStatusOf(after[which], ref) = Str(writes[i].status)
           /\ \A i \in 1..Len(writes) :
                /\ writes[i].status \in {DELETED, MODIFIED, ADDED}
                /\ writes[i].status = DELETED => writes[i].flow = "old"
                /\ writes[i].status = ADDED => writes[i].flow = "new"
                /\ writes[i].ref \in FlowRefs(after[writes[i].flow])
           /\ \A ref \in FlowRefs(oldFlow') :
                DiffStatusOf(oldFlow', ref) # Str(ADDED)
           /\ \A ref \in FlowRefs(newFlow') :
                DiffStatusOf(newFlow', ref) # Str(DELETED)]_vars

\* a comparison has marked a node of each flow as modified, with one
\* assignment to each of the two nodes, next to a node it did not mark
C23_Witness ==
  /\ Compared
  /\ \E ref \in FlowRefs(newFlow) : DiffStatusOf(newFlow, ref) = Str(MODIFIED)
  /\ \E ref \in FlowRefs(newFlow) : DiffStatusOf(newFlow, ref) = Undefined
  /\ Len(WritesOf(generateFlowDefinition(input.old).flow,
                  generateFlowDefinition(input.new).flow)) = 2

\* the flow has a graph: its nameToNode is set
HasGraph(flow) == flow.nameToNode.present

\* every node of the graph of a flow has the diffStatus
AllMarked(flow, status) ==
  \A name \in KeysOf(flow) :
    Get(NamedNode(flow, name), "diffStatus") = Str(status)

\* C24: compareFlows throws for no pair of flows, and a flow without a graph
\* counts as one with an empty graph: the call leaves the flows as it leaves
\* them when an empty Map stands for the missing nameToNode, so that without
\* an old graph every node of the new graph is ADDED, without a new graph
\* every node of the old graph is DELETED, and a flow without a graph has no
\* node marked.
C24_AbsentGraphIsEmpty ==
  [][pc = "compare" =>
       /\ pc' = "parsed"
       /\ error' = NoError
       /\ LET asEmpty(flow) ==
                IF HasGraph(flow) THEN flow
                ELSE [flow EXCEPT !.nameToNode = NewMap]
              compared == compareFlows(asEmpty(oldFlow), asEmpty(newFlow))
          IN  /\ FlowWithoutDiffStatus(oldFlow') = FlowWithoutDiffStatus(oldFlow)
              /\ FlowWithoutDiffStatus(newFlow') = FlowWithoutDiffStatus(newFlow)
              /\ \A ref \in FlowRefs(oldFlow) :
                   DiffStatusOf(oldFlow', ref) = DiffStatusOf(compared.old, ref)
              /\ \A ref \in FlowRefs(newFlow) :
                   DiffStatusOf(newFlow', ref) = DiffStatusOf(compared.new, ref)
       /\ ~HasGraph(oldFlow) => Unmarked(oldFlow') /\ AllMarked(newFlow', ADDED)
       /\ ~HasGraph(newFlow) => Unmarked(newFlow') /\ AllMarked(oldFlow', DELETED)
       /\ (~HasGraph(oldFlow) /\ ~HasGraph(newFlow)) =>
            oldFlow' = oldFlow /\ newFlow' = newFlow]_vars

\* a flow with nodes has been compared with a flow without a graph, on
\* either side
C24_Witness ==
  /\ pc = "parsed"
  /\ error = NoError
  /\ \/ /\ ~HasGraph(oldFlow)
        /\ Cardinality(KeysOf(newFlow)) > 1
        /\ AllMarked(newFlow, ADDED)
     \/ /\ ~HasGraph(newFlow)
        /\ Cardinality(KeysOf(oldFlow)) > 1
        /\ AllMarked(oldFlow, DELETED)

(***************************************************************************)
(* Properties of the stages of the pipeline.                               *)
(***************************************************************************)
\* the current file has no old version to retrieve, or no new version
OldMissing == ~FileContent(files[current]).old.present
NewMissing == ~FileContent(files[current]).new.present

\* C28: in git-diff mode a file whose old version cannot be retrieved is
\* read without error, with no old version, and goes through the pipeline as
\* a new flow: it is parsed without comparison and rendered with no old
\* diagram; a file whose new version cannot be retrieved fails at the read,
\* whether or not its old version can be retrieved.
C28_MissingOldVersionIsNotAnError ==
  [][(gitDiff /\ current <= Len(files)) =>
       /\ (pc = "read" /\ OldMissing /\ ~NewMissing) =>
            /\ pc' = "parseNew"
            /\ error' = NoError
            /\ input' = [old |-> NoDocument,
                         new |-> FileContent(files[current]).new]
       /\ (pc = "read" /\ NewMissing) =>
            /\ pc' = "failed"
            /\ error' = ReadError
            /\ input' = input
       /\ (pc = "failed" /\ NewMissing) => ~MapHas(result', files[current])
       /\ (OldMissing /\ ~NewMissing) =>
            /\ pc' \notin {"parseOld", "compare"}
            /\ oldFlow' = NoFlow
            /\ pc' = "rendered" =>
                 uml' = [old |-> NoDiagram,
                         new |-> generateUml(tool,
                                   generateFlowDefinition(input.new).flow)]]_vars

\* in git-diff mode a file without an old version has been rendered, after
\* a file without a new version has failed
C28_Witness ==
  /\ gitDiff
  /\ current = 2
  /\ Rendered
  /\ OldMissing
  /\ uml.old = NoDiagram
  /\ uml.new # NoDiagram
  /\ ~FileContent(files[1]).new.present
  /\ ~MapHas(result, files[1])

\* the promise of the current file: pending while the pipeline runs,
\* rejected when a stage has thrown, resolved with the last stage's output
Pending == InPipeline
Rejected == pc = "failed"
Resolved == pc = "rendered"

\* the error that the stage at a position of the pipeline throws
StageError(at) ==
  CASE at = "read" -> ReadError
    [] at = "parseNew" -> generateFlowDefinition(input.new).error
    [] at = "parseOld" -> generateFlowDefinition(input.old).error
    [] at = "parsed" -> TypeError

\* C29: the pipeline of a file settles exactly once.  A stage that fails
\* rejects the promise with its own error, and no stage runs after it: the
\* next step is the catch of the batch, which stores nothing.  The promise
\* is resolved only by the last stage after all stages have succeeded, with
\* that stage's output, which the batch stores.  A settled promise is never
\* settled again.
C29_SettlesExactlyOnce ==
  [][/\ (Pending /\ error' # NoError) =>
          /\ Rejected'
          /\ error' = StageError(pc)
          /\ UNCHANGED <<newFlow, oldFlow, uml, result, current>>
     /\ Pending => error = NoError
     /\ (Pending /\ Rejected') => error' # NoError
     /\ Rejected =>
          /\ error # NoError
          /\ uml = NoDiagrams
          /\ current' = current + 1
          /\ result' = result
          /\ ~Resolved' /\ ~Rejected'
     /\ Resolved' =>
          /\ pc = "parsed"
          /\ error' = NoError
          /\ uml'.new = generateUml(tool, newFlow)
     /\ Resolved =>
          /\ current' = current + 1
          /\ result' = MapSet(result, files[current], uml)
          /\ ~Resolved' /\ ~Rejected']_vars

\* the second file of a batch has been rejected by the parse of its old
\* version, after its new version was parsed and after the first file was
\* resolved and stored
C29_Witness ==
  /\ current = 2
  /\ Rejected
  /\ newFlow # NoFlow
  /\ input.old.present
  /\ ~generateFlowDefinition(input.old).ok
  /\ error = generateFlowDefinition(input.old).error
  /\ MapHas(result, files[1])
  /\ files[1] # files[2]

(***************************************************************************)
(* argument_processor.ts: ArgumentProcessor.  A RuntimeConfig is a record  *)
(* of JavaScript values; an option that is not given is undefined.         *)
(***************************************************************************)
\* s.toLowerCase() on the strings of the model
toLowerCase(s) ==
  CASE s = "Mermaid" -> "mermaid"
    [] s = "GITHUB_ACTION" -> "github_action"
    [] OTHER -> s

\* Object.values(DiagramTool) and Object.values(Mode)
DiagramTool == {"plantuml", "graphviz", "mermaid", "d2"}
Mode == {"json", "github_action", "markdown"}

\* existsSync(path): the files and directories that are there
existsSync(path) == path \in {"existing.flow", "out"}

\* the configurations handed to the ArgumentProcessor
Configs ==
  [diagramTool : {Str("mermaid"), Str("Mermaid"), Str("plantuml"),
                  Str("unsupported"), Undefined},
   mode : {Str("json"), Str("github_action"), Str("GITHUB_ACTION"),
           Str("markdown"), Str("unsupported"), Undefined},
   filePath : {Undefined, Arr(<<>>), Arr(<<Str("existing.flow")>>),
               Arr(<<Str("gone.flow")>>),
               Arr(<<Str("gone.flow"), Str("existing.flow"), Str("lost.flow")>>)},
   gitDiffFromHash : {Undefined, Str("HEAD^1"), Str("HEAD~2")},
   gitDiffToHash : {Undefined, Str("HEAD"), Str("HEAD~1")},
   outputDirectory : {Undefined, Str("out"), Str("nowhere")},
   outputFileName : {Undefined, Str("diagrams"), Str("unsupported.file.name")}]

\* this.config.mode?.toLowerCase() === mode
IsMode(config, mode) ==
  config.mode.t = "string" /\ toLowerCase(config.mode.s) = mode

\* this.config.diagramTool?.toLowerCase() !== DiagramTool.MERMAID
NotMermaid(config) ==
  ~(config.diagramTool.t = "string"
    /\ toLowerCase(config.diagramTool.s) = "mermaid")

\* `${v}` of an option in an error message
Shown(v) == IF v.t = "string" THEN v.s ELSE "undefined"

\* each validator gives the errors it pushes to errorsEncountered, in order
validateDiagramTool(config) ==
  IF \/ ~Truthy(config.diagramTool)
     \/ toLowerCase(config.diagramTool.s) \notin DiagramTool
  THEN <<"Unsupported diagram tool: " \o Shown(config.diagramTool)>>
  ELSE <<>>

validateMode(config) ==
  IF ~Truthy(config.mode) \/ toLowerCase(config.mode.s) \notin Mode
  THEN <<"Unsupported mode: " \o Shown(config.mode)>>
  ELSE <<>>

\* one error for each file path that does not exist, in the order given
RECURSIVE validateFilePathFrom(_, _)
validateFilePathFrom(config, i) ==
  IF i >= Length(config.filePath) THEN <<>>
  ELSE (IF existsSync(At(config.filePath, i).s) THEN <<>>
        ELSE <<"filePath does not exist: " \o At(config.filePath, i).s>>)
       \o validateFilePathFrom(config, i + 1)

validateFilePath(config) ==
  IF ~Truthy(config.filePath) THEN <<>> ELSE validateFilePathFrom(config, 0)

\* VALID_OUTPUT_FILE_NAME_REGEX.test(name) on the names of the model
validateOutputFileName(config) ==
  IF ~Truthy(config.outputFileName)
  THEN <<"outputFileName is required for JSON mode">>
  ELSE IF config.outputFileName.s # "diagrams"
  THEN <<"outputFileName must be alphanumeric with underscores: "
           \o config.outputFileName.s>>
  ELSE <<>>

validateOutputDirectory(config) ==
  IF ~Truthy(config.outputDirectory)
  THEN <<"outputDirectory is required for JSON mode">>
  ELSE IF ~existsSync(config.outputDirectory.s)
  THEN <<"outputDirectory does not exist: " \o config.outputDirectory.s>>
  ELSE <<>>

\* validateGitHubActionMode that stops at the first requirement not met
validateGitHubActionMode_ElseIf(config) ==
  IF NotMermaid(config)
  THEN <<"GitHub Action mode requires diagramTool to be 'mermaid'">>
  ELSE IF config.gitDiffToHash # Str("HEAD")
  THEN <<"GitHub Action mode requires gitDiffToHash to be 'HEAD'">>
  ELSE IF config.gitDiffFromHash # Str("HEAD^1")
  THEN <<"GitHub Action mode requires gitDiffFromHash to be 'HEAD^1'">>
  ELSE <<>>

validateGitHubActionMode(config) ==
  (IF NotMermaid(config)
   THEN <<"GitHub Action mode requires diagramTool to be 'mermaid'">>
   ELSE <<>>)
  \o (IF config.gitDiffToHash # Str("HEAD")
      THEN <<"GitHub Action mode requires gitDiffToHash to be 'HEAD'">>
      ELSE <<>>)
  \o (IF config.gitDiffFromHash # Str("HEAD^1")
      THEN <<"GitHub Action mode requires gitDiffFromHash to be 'HEAD^1'">>
      ELSE <<>>)

validateMarkdownMode(config) ==
  IF NotMermaid(config)
  THEN <<"Markdown mode requires diagramTool to be 'mermaid'">>
  ELSE <<>>

\* config.filePath && config.filePath.length > 0
HasFilePath(config) == Truthy(config.filePath) /\ Length(config.filePath) > 0

validateRequiredArguments(config) ==
  IF /\ ~Truthy(config.filePath) \/ Length(config.filePath) = 0
     /\ ~(Truthy(config.gitDiffFromHash) /\ Truthy(config.gitDiffToHash))
  THEN <<"Either filePath or (gitDiffFrom and gitDiffToHash) must be specified">>
  ELSE <<>>

\* validateMutuallyExclusiveArguments that never finds fault
validateMutuallyExclusiveArguments_None(config) == <<>>

validateMutuallyExclusiveArguments(config) ==
  IF /\ HasFilePath(config)
     /\ Truthy(config.gitDiffFromHash) \/ Truthy(config.gitDiffToHash)
  THEN <<"filePath and (gitDiffFrom and gitDiffToHash) are mutually exclusive">>
  ELSE <<>>

validateConditionalArguments(config) ==
  IF \/ Truthy(config.gitDiffToHash) /\ ~Truthy(config.gitDiffFromHash)
     \/ Truthy(config.gitDiffFromHash) /\ ~Truthy(config.gitDiffToHash)
  THEN <<"gitDiffFromHash and gitDiffToHash must be specified together">>
  ELSE <<>>

\* validateArguments(): the errors pushed, in the order of the calls
validateArguments(config) ==
  validateDiagramTool(config)
  \o validateMode(config)
  \o validateFilePath(config)
  \o (IF IsMode(config, "json")
      THEN validateOutputDirectory(config) \o validateOutputFileName(config)
      ELSE <<>>)
  \o (IF IsMode(config, "markdown") THEN validateOutputDirectory(config)
      ELSE <<>>)
  \o (IF IsMode(config, "github_action") THEN validateGitHubActionMode(config)
      ELSE <<>>)
  \o (IF IsMode(config, "markdown") THEN validateMarkdownMode(config)
      ELSE <<>>)
  \o validateRequiredArguments(config)
  \o validateMutuallyExclusiveArguments(config)
  \o validateConditionalArguments(config)

\* checkForErrors(): the lines of the message of the Error thrown
checkForErrors(errorsEncountered) ==
  <<"The following errors were encountered:">>
  \o [i \in 1..Len(errorsEncountered) |-> "- " \o errorsEncountered[i]]

\* new ArgumentProcessor(config): errorsEncountered = []
NewProcessor ==
  [pc |-> "constructed", errorsEncountered |-> <<>>, thrown |-> <<>>,
   returned |-> NoConfig]

\* new ArgumentProcessor(config).getConfig(), as Configuration.getInstance()
\* and the tests call it: once on a processor
GetConfig ==
  /\ processor.pc = "constructed"
  /\ LET errors == processor.errorsEncountered \o validateArguments(arguments)
     IN  processor' =
           IF Len(errors) > 0
           THEN [processor EXCEPT !.pc = "thrown",
                                  !.errorsEncountered = errors,
                                  !.thrown = checkForErrors(errors)]
           ELSE [processor EXCEPT !.pc = "returned",
                                  !.errorsEncountered = errors,
                                  !.returned = arguments]
  /\ UNCHANGED <<input, pc, newFlow, oldFlow, error, uml, run, arguments,
                 transformed, pullRequest, writer>>

\* getConfig() for every configuration
ConfigInit ==
  /\ arguments \in Configs
  /\ processor = NewProcessor
  /\ transformed = NoTransformed
  /\ pullRequest = NoPullRequest
  /\ writer = NoWriter
  /\ input = [old |-> NoDocument, new |-> NoDocument]
  /\ pc = "returned"
  /\ newFlow = NoFlow
  /\ oldFlow = NoFlow
  /\ error = NoError
  /\ uml = NoDiagrams
  /\ tool = "mermaid"
  /\ gitDiff = FALSE
  /\ files = <<>>
  /\ current = 0
  /\ result = NewMap

ConfigNext == GetConfig

ConfigSpec == ConfigInit /\ [][ConfigNext]_vars

(***************************************************************************)
(* Properties of the argument validation.                                  *)
(***************************************************************************)
\* getConfig() has been called and has thrown, or has returned
Thrown == processor.pc = "thrown"
Returned == processor.pc = "returned"

\* a string option as given: its text in lower case, "" when it is not given
Lower(v) == IF v.t = "string" THEN toLowerCase(v.s) ELSE ""

\* a check of the validation: whether the configuration fails it, and the
\* error reported for it
Check(failed, message) == [failed |-> failed, error |-> message]

\* The checks that apply to a configuration, in the validation order: the
\* diagram tool, the mode, each file path, the output of the mode, the
\* requirements of the mode, and the three checks of how the input is named.
Checks(c) ==
  <<Check(Lower(c.diagramTool) \notin DiagramTool,
          "Unsupported diagram tool: " \o Shown(c.diagramTool)),
    Check(Lower(c.mode) \notin Mode, "Unsupported mode: " \o Shown(c.mode))>>
  \o [i \in 1..Length(c.filePath) |->
        Check(~existsSync(At(c.filePath, i - 1).s),
              "filePath does not exist: " \o At(c.filePath, i - 1).s)]
  \o (IF Lower(c.mode) \in {"json", "markdown"}
      THEN <<Check(c.outputDirectory # Str("out"),
                   IF c.outputDirectory = Undefined
                   THEN "outputDirectory is required for JSON mode"
                   ELSE "outputDirectory does not exist: "
                          \o Shown(c.outputDirectory))>>
      ELSE <<>>)
  \o (IF Lower(c.mode) = "json"
      THEN <<Check(c.outputFileName # Str("diagrams"),
                   IF c.outputFileName = Undefined
                   THEN "outputFileName is required for JSON mode"
                   ELSE "outputFileName must be alphanumeric with underscores: "
                          \o Shown(c.outputFileName))>>
      ELSE <<>>)
  \o (IF Lower(c.mode) = "github_action"
      THEN <<Check(Lower(c.diagramTool) # "mermaid",
                   "GitHub Action mode requires diagramTool to be 'mermaid'"),
             Check(c.gitDiffToHash # Str("HEAD"),
                   "GitHub Action mode requires gitDiffToHash to be 'HEAD'"),
             Check(c.gitDiffFromHash # Str("HEAD^1"),
                   "GitHub Action mode requires gitDiffFromHash to be 'HEAD^1'")>>
      ELSE <<>>)
  \o (IF Lower(c.mode) = "markdown"
      THEN <<Check(Lower(c.diagramTool) # "mermaid",
                   "Markdown mode requires diagramTool to be 'mermaid'")>>
      ELSE <<>>)
  \o <<Check(Length(c.filePath) = 0
               /\ (c.gitDiffFromHash = Undefined \/ c.gitDiffToHash = Undefined),
             "Either filePath or (gitDiffFrom and gitDiffToHash) must be specified"),
       Check(Length(c.filePath) > 0
               /\ (c.gitDiffFromHash # Undefined \/ c.gitDiffToHash # Undefined),
             "filePath and (gitDiffFrom and gitDiffToHash) are mutually exclusive"),
       Check((c.gitDiffFromHash = Undefined) # (c.gitDiffToHash = Undefined),
             "gitDiffFromHash and gitDiffToHash must be specified together")>>

\* the errors of the checks that fail, in the order of the checks
FailedChecks(c) ==
  LET failed == SelectSeq(Checks(c), LAMBDA check : check.failed)
  IN  [i \in 1..Len(failed) |-> failed[i].error]

\* C26: the validation runs every check, whatever the checks before it
\* found: after getConfig() the error list has exactly one entry for each
\* failed check, in the order of the checks (in github_action mode: Mermaid
\* required, then the to-hash must be HEAD, then the from-hash must be
\* HEAD^1); getConfig() throws, with the header and one line per error, if
\* and only if some check failed, and otherwise returns the configuration it
\* was given.
C26_EveryCheckRunsAndReports ==
  processor.pc # "constructed" =>
    /\ processor.errorsEncountered = FailedChecks(arguments)
    /\ Thrown <=> \E i \in 1..Len(Checks(arguments)) : Checks(arguments)[i].failed
    /\ Thrown =>
         /\ Len(processor.thrown) = 1 + Len(FailedChecks(arguments))
         /\ processor.thrown[1] = "The following errors were encountered:"
         /\ \A i \in 1..Len(FailedChecks(arguments)) :
              processor.thrown[i + 1] = "- " \o FailedChecks(arguments)[i]
    /\ Returned <=> FailedChecks(arguments) = <<>>
    /\ Returned => processor.returned = arguments

\* in github_action mode getConfig() has thrown with the three errors of the
\* mode, in order, after an error of an earlier check and before those of
\* two later checks
C26_Witness ==
  /\ Thrown
  /\ Len(processor.errorsEncountered) = 6
  /\ processor.errorsEncountered[1] = "Unsupported diagram tool: unsupported"
  /\ processor.errorsEncountered[2]
       = "GitHub Action mode requires diagramTool to be 'mermaid'"
  /\ processor.errorsEncountered[3]
       = "GitHub Action mode requires gitDiffToHash to be 'HEAD'"
  /\ processor.errorsEncountered[4]
       = "GitHub Action mode requires gitDiffFromHash to be 'HEAD^1'"
  /\ processor.errorsEncountered[5]
       = "Either filePath or (gitDiffFrom and gitDiffToHash) must be specified"
  /\ processor.errorsEncountered[6]
       = "gitDiffFromHash and gitDiffToHash must be specified together"

\* how a configuration names its input: by file paths, by the two hashes
NamesFiles(c) == Length(c.filePath) > 0
GivesFromHash(c) == c.gitDiffFromHash # Undefined
GivesToHash(c) == c.gitDiffToHash # Undefined

\* C27: getConfig() accepts a configuration only if it names its input in
\* exactly one way: file paths (a list that is not empty) and neither hash,
\* or both hashes and no file path.  A configuration with neither, with file
\* paths and a hash, or with only one of the two hashes is rejected, with
\* the error of the rule it breaks.
C27_InputNamedInExactlyOneWay ==
  processor.pc # "constructed" =>
    LET c == arguments
        reported(message) ==
          /\ Thrown
          /\ \E i \in 1..Len(processor.errorsEncountered) :
               processor.errorsEncountered[i] = message
    IN  /\ Returned =>
             \/ NamesFiles(c) /\ ~GivesFromHash(c) /\ ~GivesToHash(c)
             \/ ~NamesFiles(c) /\ GivesFromHash(c) /\ GivesToHash(c)
        /\ (~NamesFiles(c) /\ ~GivesFromHash(c) /\ ~GivesToHash(c)) =>
             reported("Either filePath or (gitDiffFrom and gitDiffToHash) must be specified")
        /\ (NamesFiles(c) /\ (GivesFromHash(c) \/ GivesToHash(c))) =>
             reported("filePath and (gitDiffFrom and gitDiffToHash) are mutually exclusive")
        /\ (GivesFromHash(c) # GivesToHash(c)) =>
             reported("gitDiffFromHash and gitDiffToHash must be specified together")

\* a configuration that names a file and no hash has been accepted
C27_Witness ==
  /\ Returned
  /\ processor.returned = arguments
  /\ NamesFiles(arguments)
  /\ ~GivesFromHash(arguments)
  /\ ~GivesToHash(arguments)

(***************************************************************************)
(* uml_writer.ts: UmlWriter.writeGithubComment, and the GithubClient it    *)
(* calls.  A review comment of the pull request is [id, path, body]; a     *)
(* body is a text, as the diagrams are.  The client's requests act on the  *)
(* comments that GitHub holds for the pull request; any request may fail.  *)
(***************************************************************************)
MaxRuns == 2

HIDDEN_COMMENT_PREFIX == "<!--flow-lens-hidden-comment-->"

\* body.includes(piece)
includes(body, piece) ==
  \E i \in 1..Len(body) : \E j \in 1..Len(body[i]) : body[i][j] = piece

\* the <details> block of one version of a flow; the fence of the code
\* block, three backquotes, is written "[fence]"
detailsBlock(version, diagram) ==
  <<<<"<details>">>,
    <<"<summary>Click here to view a preview of the ", version,
      " version of this flow</summary>">>,
    <<>>,
    <<"[fence]mermaid">>>>
  \o diagram
  \o <<<<"[fence]">>, <<"</details>">>>>

\* getBody without the hidden marker
getBody_NoMarker(flowDifference) ==
  (IF flowDifference.old # NoDiagram /\ flowDifference.old # EmptyText
   THEN detailsBlock("old", flowDifference.old) \o <<<<>>>>
   ELSE <<>>)
  \o detailsBlock("new", flowDifference.new)

\* getBody(flowDifference): the marker, the old diagram if there is one, the
\* new diagram
getBody(flowDifference) ==
  <<<<HIDDEN_COMMENT_PREFIX>>>>
  \o (IF flowDifference.old # NoDiagram /\ flowDifference.old # EmptyText
      THEN detailsBlock("old", flowDifference.old) \o <<<<>>>>
      ELSE <<>>)
  \o detailsBlock("new", flowDifference.new)

\* translateToComment(body, filePath), with the id GitHub gives the comment
translateToComment(body, filePath, id) ==
  [id |-> id, path |-> filePath, body |-> body]

\* the files of the runs of the action
WriterPaths == {"changed.flow", "added.flow", "malformed.flow"}

\* the elements of a sequence in the order of their first occurrence
RECURSIVE Distinct(_)
Distinct(seq) ==
  IF seq = <<>> THEN <<>>
  ELSE <<Head(seq)>> \o SelectSeq(Distinct(Tail(seq)),
                                  LAMBDA element : element # Head(seq))

\* transformToUmlDiagram(filePath) in github_action mode, that is with the
\* two hashes and Mermaid: the diagrams of the file, or NoDiagrams when the
\* read, a parse or the rendering fails
transformToUmlDiagram(filePath) ==
  LET content == FileContent(filePath)
      new == IF content.new.present THEN generateFlowDefinition(content.new)
             ELSE [ok |-> FALSE]
      old == IF content.old.present THEN generateFlowDefinition(content.old)
             ELSE [ok |-> TRUE, flow |-> NoFlow]
  IN  IF ~new.ok \/ ~old.ok THEN NoDiagrams
      ELSE LET flows == IF content.old.present
                        THEN compareFlows(old.flow, new.flow)
                        ELSE [old |-> NoFlow, new |-> new.flow]
               oldDiagram == IF content.old.present
                             THEN generateDiagram("mermaid", flows.old)
                             ELSE [ok |-> TRUE, uml |-> NoDiagram]
               newDiagram == generateDiagram("mermaid", flows.new)
           IN  IF oldDiagram.ok /\ newDiagram.ok
               THEN [old |-> oldDiagram.uml, new |-> newDiagram.uml]
               ELSE NoDiagrams

\* transformToUmlDiagrams() on a list of files: the Map that result.set()
\* builds, with an entry for each file that succeeds, in the order in which
\* the files first occur
transformToUmlDiagrams(filePaths) ==
  LET keys == SelectSeq(Distinct(filePaths),
                        LAMBDA filePath : transformed[filePath] # NoDiagrams)
  IN  [present |-> TRUE,
       keys |-> keys,
       val |-> [filePath \in {keys[i] : i \in 1..Len(keys)} |->
                  transformed[filePath]]]

\* the lists of files that a run of the action is given
ChangedFiles == UNION {[1..n -> WriterPaths] : n \in 0..MaxFiles}

\* the comments on the pull request before the first run: none, comments of
\* reviewers, and comments that have the marker in their body
PullRequests ==
  LET regular == <<<<"Regular comment">>>>
      marked == <<<<HIDDEN_COMMENT_PREFIX, " Old comment">>>>
      quoting == <<<<"Regular comment">>, <<"> ", HIDDEN_COMMENT_PREFIX>>>>
      bodies == {<<>>, <<regular>>, <<marked>>, <<regular, marked>>,
                 <<marked, regular, quoting>>}
  IN  {[comments |-> [i \in 1..Len(seq) |->
                        translateToComment(seq[i], "changed.flow", i)],
        nextId |-> Len(seq) + 1] : seq \in bodies}

\* new UmlWriter(filePathToFlowDifference) in the n-th run of the action
NewWriter(results, n) ==
  [pc |-> "fetch", existingComments |-> <<>>, flowLensComments |-> <<>>,
   entries |-> results.keys, runs |-> n]

\* where writeGithubComment goes on: the next comment to delete, the next
\* entry to write, or the end
Continue(w) ==
  [w EXCEPT !.pc = IF w.flowLensComments # <<>> THEN "delete"
                   ELSE IF w.entries # <<>> THEN "write"
                   ELSE "done"]

\* the filter that keeps every comment
GetAllComments_NoFilter ==
  /\ writer.pc = "fetch"
  /\ writer' = Continue([writer EXCEPT
                           !.existingComments = pullRequest.comments,
                           !.flowLensComments = pullRequest.comments])
  /\ UNCHANGED <<input, pc, newFlow, oldFlow, error, uml, run, arguments,
                 processor, transformed, pullRequest>>

\* existingComments = await getAllCommentsForPullRequest();
\* flowLensComments = existingComments.filter(body.includes(prefix))
GetAllComments ==
  /\ writer.pc = "fetch"
  /\ writer' = Continue([writer EXCEPT
                           !.existingComments = pullRequest.comments,
                           !.flowLensComments =
                              SelectSeq(pullRequest.comments,
                                        LAMBDA comment :
                                          includes(comment.body,
                                                   HIDDEN_COMMENT_PREFIX))])
  /\ UNCHANGED <<input, pc, newFlow, oldFlow, error, uml, run, arguments,
                 processor, transformed, pullRequest>>

\* await this.githubClient.deleteReviewComment(comment.id)
DeleteReviewComment ==
  /\ writer.pc = "delete"
  /\ pullRequest' =
       [pullRequest EXCEPT
          !.comments = SelectSeq(@, LAMBDA comment :
                                      comment.id # Head(writer.flowLensComments).id)]
  /\ writer' = Continue([writer EXCEPT !.flowLensComments = Tail(@)])
  /\ UNCHANGED <<input, pc, newFlow, oldFlow, error, uml, run, arguments,
                 processor, transformed>>

\* writeComment(translateToComment(getBody(flowDifference), filePath))
WriteComment ==
  /\ writer.pc = "write"
  /\ LET filePath == Head(writer.entries)
     IN  pullRequest' =
           [comments |-> Append(pullRequest.comments,
                                translateToComment(getBody(result.val[filePath]),
                                                   filePath, pullRequest.nextId)),
            nextId |-> pullRequest.nextId + 1]
  /\ writer' = Continue([writer EXCEPT !.entries = Tail(@)])
  /\ UNCHANGED <<input, pc, newFlow, oldFlow, error, uml, run, arguments,
                 processor, transformed>>

\* a request of the client fails: catch (error) { console.error; throw error }
RequestFails ==
  /\ writer.pc \in {"fetch", "delete", "write"}
  /\ writer' = [writer EXCEPT !.pc = "failed"]
  /\ UNCHANGED <<input, pc, newFlow, oldFlow, error, uml, run, arguments,
                 processor, transformed, pullRequest>>

\* the action runs again on the pull request, with the result of the run
NextRun ==
  /\ writer.pc \in {"done", "failed"}
  /\ writer.runs < MaxRuns
  /\ \E filePaths \in ChangedFiles :
       result' = transformToUmlDiagrams(filePaths)
  /\ writer' = NewWriter(result', writer.runs + 1)
  /\ UNCHANGED <<input, pc, newFlow, oldFlow, error, uml, tool, gitDiff,
                 files, current, arguments, processor, transformed,
                 pullRequest>>

\* the runs of the action on a pull request
WriterInit ==
  /\ pullRequest \in PullRequests
  /\ tool = "mermaid"
  /\ gitDiff = TRUE
  /\ transformed = [filePath \in WriterPaths |->
                      transformToUmlDiagram(filePath)]
  /\ \E filePaths \in ChangedFiles :
       result = transformToUmlDiagrams(filePaths)
  /\ writer = NewWriter(result, 1)
  /\ arguments = NoConfig
  /\ processor = NoProcessor
  /\ input = [old |-> NoDocument, new |-> NoDocument]
  /\ pc = "returned"
  /\ newFlow = NoFlow
  /\ oldFlow = NoFlow
  /\ error = NoError
  /\ uml = NoDiagrams
  /\ files = <<>>
  /\ current = 0

WriterNext ==
  GetAllComments \/ DeleteReviewComment \/ WriteComment \/ RequestFails
  \/ NextRun

WriterSpec == WriterInit /\ [][WriterNext]_vars

(***************************************************************************)
(* Properties of the comments written to the pull request.                 *)
(***************************************************************************)
\* the comment has the hidden marker in its body
Marked(comment) == includes(comment.body, HIDDEN_COMMENT_PREFIX)

\* the comments of a sequence, as a set
CommentsIn(comments) == {comments[i] : i \in 1..Len(comments)}

\* the comments that a step of the writer takes from the pull request, and
\* those it adds
Deleted == CommentsIn(pullRequest.comments) \ CommentsIn(pullRequest'.comments)
Posted == CommentsIn(pullRequest'.comments) \ CommentsIn(pullRequest.comments)

\* C25: in a run of github_action mode the comments that were on the pull
\* request when the run fetched them are the pre-existing ones.  The writer
\* deletes only comments with the marker in their body; it posts a comment
\* only when no pre-existing comment with the marker is left; and when it
\* ends, a pre-existing comment is gone exactly if it has the marker.
C25_MarkedCommentsDeletedBeforePosting ==
  [][/\ writer.pc = "fetch" /\ writer'.pc # "failed" =>
          writer'.existingComments = pullRequest.comments
     /\ \A comment \in Deleted :
          /\ writer.pc = "delete"
          /\ Marked(comment)
          /\ comment \in CommentsIn(writer.existingComments)
     /\ Posted # {} =>
          /\ writer.flowLensComments = <<>>
          /\ \A comment \in CommentsIn(writer.existingComments) :
               Marked(comment) => comment \notin CommentsIn(pullRequest.comments)
     /\ writer'.pc = "done" =>
          \A comment \in CommentsIn(writer'.existingComments) :
            Marked(comment) <=> comment \notin CommentsIn(pullRequest'.comments)]_vars

\* a run has ended after it deleted a pre-existing comment with the marker,
\* kept a pre-existing comment without it, and posted a comment
C25_Witness ==
  /\ writer.pc = "done"
  /\ \E comment \in CommentsIn(writer.existingComments) :
       Marked(comment) /\ comment \notin CommentsIn(pullRequest.comments)
  /\ \E comment \in CommentsIn(writer.existingComments) :
       ~Marked(comment) /\ comment \in CommentsIn(pullRequest.comments)
  /\ \E comment \in CommentsIn(pullRequest.comments) :
       comment \notin CommentsIn(writer.existingComments)

\* C30: every comment the writer posts has the marker in its body and is
\* attached to the path of the entry of the result map it is posted for, one
\* comment for each entry; so when a run ends without a failed request,
\* whatever the runs before it did, the comments with the marker on the pull
\* request are those of this run, one for each file of its result map, in
\* the order of the map.
C30_OneMarkedCommentPerFile ==
  [][/\ \A comment \in Posted :
          /\ writer.pc = "write"
          /\ Marked(comment)
          /\ comment.path = Head(writer.entries)
          /\ writer'.entries = Tail(writer.entries)
          /\ Posted = {comment}
     /\ writer'.pc = "done" =>
          LET marked == SelectSeq(pullRequest'.comments,
                                  LAMBDA comment : Marked(comment))
          IN  /\ [i \in 1..Len(marked) |-> marked[i].path] = result.keys
              /\ \A i \in 1..Len(marked) :
                   /\ marked[i] \notin CommentsIn(writer'.existingComments)
                   /\ marked[i].body = getBody(result.val[marked[i].path])]_vars

\* the second run on a pull request has ended with one comment for each of
\* its two files, after it deleted a comment that the first run had posted
C30_Witness ==
  /\ writer.pc = "done"
  /\ writer.runs = 2
  /\ Len(result.keys) = 2
  /\ Cardinality({comment \in CommentsIn(pullRequest.comments) : Marked(comment)}) = 2
  /\ \E comment \in CommentsIn(writer.existingComments) :
       /\ comment.path = "added.flow"
       /\ Marked(comment)
       /\ comment \notin CommentsIn(pullRequest.comments)

====
